---------------------------- MODULE Spec2Model ----------------------------
(***************************************************************************)
(* School management REST backend (server/app): the endpoint handlers of   *)
(* api/v1/endpoints and the rows they keep in the backing store.           *)
(*                                                                         *)
(* A table is a set of rows (records); a row's id is given by the store    *)
(* on insert.  A handler is an operator from the table(s) it reads and     *)
(* the request to the HTTP status it answers with and the table it leaves  *)
(* behind; the action of the same name applies it to the store and keeps   *)
(* the request and the answer in `response`.  The handlers are modelled    *)
(* from the point where their dependencies (the bearer token, the role     *)
(* gate) have let the request through.                                     *)
(***************************************************************************)
EXTENDS Integers, Sequences, FiniteSets

VARIABLES
    users,        \* table "users"
    students,     \* table "students"
    classes,      \* table "classes"
    subjects,     \* table "subjects": the subject_id values present
    teachers,     \* table "teachers"
    parents,      \* table "parents"
    parent_student, \* table "parent_student": the links of parents to children
    announcements,  \* table "announcements"
    leave_requests, \* table "leave_requests"
    attendance,   \* table "attendance"
    fees,         \* table "fees"
    exams,        \* table "exams"
    marks,        \* table "marks"
    timetable,    \* table "timetable"
    workers,      \* per worker process: the position of the request it serves
    tokens,       \* the JWTs the API has issued and clients still hold
    response      \* the last request served and the answer it got

vars == <<users, students, classes, subjects, teachers, parents, parent_student,
          announcements, leave_requests, attendance, fees, exams, marks, timetable,
          workers, tokens, response>>

\* the tables that the endpoints of attendance, fees, exams, marks and
\* timetable read at most, and the tokens issued, which none of them changes
refTables == <<students, classes, subjects, teachers, parents, parent_student,
               announcements, leave_requests, tokens>>

-----------------------------------------------------------------------------
(* Bounds of the model *)

\* rows a table may hold before the model stops inserting into it
MaxAttendance == 3
MaxFees == 1
\* largest amount of money a request may carry
MaxAmount == 2
MaxMarks == 2
MaxEntries == 2
MaxListedFees == 2
MaxAnnouncements == 1
MaxLeaveRequests == 2
MaxClasses == 3
\* longest list a bulk request may carry
MaxBulk == 2

\* the rows of the referenced tables (their ids), and for each table one id
\* that no row has
StudentIds == {"s1", "s2", "s3"}
ClassIds == {"c1", "c2"}
SubjectIds == {"sub1"}
TeacherIds == {"t1", "t2"}
ParentIds == {"p1", "p2"}
NoStudent == "s0"
NoClass == "c0"
NoSubject == "sub0"
NoTeacher == "t0"

\* a field of a partial update: <<>> when the request leaves it out, <<v>>
\* when the request sets it to v (model_dump(exclude_unset=True) keeps it)
Optional(S) == {<<>>} \cup {<<v>> : v \in S}

-----------------------------------------------------------------------------
(* Enumerations of models/schemas.py *)

UserRole == {"admin", "teacher", "student", "parent", "master"}

AttendanceStatus == {"present", "absent", "late", "excused"}

FeeStatus == {"paid", "pending", "overdue", "partial"}

-----------------------------------------------------------------------------
(* The store *)

\* the id the store gives the next row of a table: one that no row present has
FreshId(ids) == IF ids = {} THEN 1 ELSE 1 + CHOOSE m \in ids : \A i \in ids : i <= m

NoResponse == [op |-> "none", status |-> 0]

\* the values of column c in the rows of a table
Col(tbl, c) == {r[c] : r \in tbl}

\* the rows the referenced tables start with: every student, teacher and
\* parent profile belongs to a user of its own (create_student,
\* create_teacher and create_parent insert the user with the profile), a
\* student's name is given as its rank in alphabetical order, and the
\* classes differ in (class_name, section, academic_year)
StudentRows ==
    {[student_id |-> "s1", user_id |-> "u_s1", name |-> 1, class_id |-> "c1"],
     [student_id |-> "s2", user_id |-> "u_s2", name |-> 2, class_id |-> "c1"],
     [student_id |-> "s3", user_id |-> "u_s3", name |-> 3, class_id |-> "c2"]}

TeacherRows ==
    {[teacher_id |-> "t1", user_id |-> "u_t1", name |-> "Ms One"],
     [teacher_id |-> "t2", user_id |-> "u_t2", name |-> "Mr Two"]}

ParentRows ==
    {[parent_id |-> "p1", user_id |-> "u_p1"],
     [parent_id |-> "p2", user_id |-> "u_p2"]}

ClassRows ==
    {[class_id |-> "c1", class_name |-> "Grade 1", section |-> "A",
      academic_year |-> "2025", teacher_id |-> <<>>],
     [class_id |-> "c2", class_name |-> "Grade 1", section |-> "B",
      academic_year |-> "2025", teacher_id |-> <<>>]}

Init ==
    /\ users = {}
    /\ students = StudentRows
    /\ classes = ClassRows
    /\ subjects = SubjectIds
    /\ teachers = TeacherRows
    /\ parents = ParentRows
    /\ parent_student = {}
    /\ announcements = {}
    /\ leave_requests = {}
    /\ attendance = {}
    /\ fees = {}
    /\ exams = {}
    /\ marks = {}
    /\ timetable = {}
    /\ workers = [w \in {1, 2} |-> [pc |-> "idle"]]
    /\ tokens = {}
    /\ response = NoResponse

-----------------------------------------------------------------------------
(* auth.py: POST /register *)

Emails == {"a@school.org", "b@school.org"}

UserCreate == [email : Emails, role : UserRole, is_active : BOOLEAN]

UserIds(tbl) == {u.user_id : u \in tbl}

\* the handler defined first (auth.py 69-117): stores the role of the request
register_user_first(tbl, user_data) ==
    IF \E u \in tbl : u.email = user_data.email
    THEN [status |-> 400, users |-> tbl, role |-> "none"]
    ELSE LET new_user == [user_id   |-> FreshId(UserIds(tbl)),
                          email     |-> user_data.email,
                          role      |-> user_data.role,
                          is_active |-> user_data.is_active]
         IN  [status |-> 201, users |-> tbl \cup {new_user}, role |-> new_user.role]

\* the handler defined second (auth.py 302-358): stores role student
register_user_second(tbl, user_data) ==
    IF \E u \in tbl : u.email = user_data.email
    THEN [status |-> 400, users |-> tbl, role |-> "none"]
    ELSE LET new_user == [user_id   |-> FreshId(UserIds(tbl)),
                          email     |-> user_data.email,
                          role      |-> "student",
                          is_active |-> user_data.is_active]
         IN  [status |-> 201, users |-> tbl \cup {new_user}, role |-> new_user.role]

\* the routes of auth.router in the order the decorators add them
AuthRoutes ==
    << [method |-> "POST", path |-> "/register",        endpoint |-> "register_user_first"],
       [method |-> "POST", path |-> "/login",           endpoint |-> "login"],
       [method |-> "POST", path |-> "/refresh",         endpoint |-> "refresh_token"],
       [method |-> "GET",  path |-> "/me",              endpoint |-> "get_current_user_info"],
       [method |-> "POST", path |-> "/change-password", endpoint |-> "change_password"],
       [method |-> "POST", path |-> "/register",        endpoint |-> "register_user_second"] >>

\* the router serves a request with the first route that matches it
RouteFor(routes, method, path) ==
    LET hits == {i \in 1..Len(routes) :
                    routes[i].method = method /\ routes[i].path = path}
        first == CHOOSE i \in hits : \A j \in hits : i <= j
    IN  routes[first].endpoint

register_user(tbl, user_data) ==
    IF RouteFor(AuthRoutes, "POST", "/register") = "register_user_first"
    THEN register_user_first(tbl, user_data)
    ELSE register_user_second(tbl, user_data)

RegisterUserWith(user_data) ==
    LET r == register_user(users, user_data)
    IN  /\ users' = r.users
        /\ response' = [op |-> "register_user", status |-> r.status,
                        email |-> user_data.email,
                        requested_role |-> user_data.role,
                        role |-> r.role]
        /\ UNCHANGED <<refTables, attendance, fees, exams, marks,
                       timetable, workers>>

RegisterUser == \E user_data \in UserCreate : RegisterUserWith(user_data)

NextAuth == RegisterUser

SpecAuth == Init /\ [][NextAuth]_vars

\* C1: every public registration that succeeds stores role student and
\* answers with role student, whatever role the request carried.
C1_RegisterForcesStudent ==
    (response.op = "register_user" /\ response.status = 201)
        => /\ response.role = "student"
           /\ \A u \in users : u.email = response.email => u.role = "student"

-----------------------------------------------------------------------------
(* attendance.py: POST /attendance/ *)

Dates == {"2025-01-06", "2025-01-07"}

\* the students attendance requests name
AttendanceStudents == {"s1", "s2"}

AttendanceCreate ==
    [student_id : AttendanceStudents, date : Dates, status : AttendanceStatus]

AttendanceIds(tbl) == {a.attendance_id : a \in tbl}

\* existing_attendance with the check left out: nothing is ever found
existing_attendance_unchecked(tbl, student_id, date) == {}

\* select * from attendance where student_id = .. and date = ..
existing_attendance(tbl, student_id, date) ==
    {a \in tbl : a.student_id = student_id /\ a.date = date}

\* db.insert_one("attendance", attendance_dict)
insert_attendance(tbl, attendance_data) ==
    tbl \cup {[attendance_id |-> FreshId(AttendanceIds(tbl)),
               student_id    |-> attendance_data.student_id,
               date          |-> attendance_data.date,
               status        |-> attendance_data.status]}

mark_attendance(tbl, attendance_data) ==
    IF existing_attendance(tbl, attendance_data.student_id, attendance_data.date) # {}
    THEN [status |-> 400, attendance |-> tbl]
    ELSE [status |-> 201, attendance |-> insert_attendance(tbl, attendance_data)]

AttendanceResponse(op, status, attendance_data) ==
    [op |-> op, status |-> status,
     student_id |-> attendance_data.student_id, date |-> attendance_data.date]

\* one request served from start to end with no other request in between
MarkAttendance ==
    \E attendance_data \in AttendanceCreate :
        LET r == mark_attendance(attendance, attendance_data)
        IN  /\ Cardinality(r.attendance) <= MaxAttendance
            /\ attendance' = r.attendance
            /\ response' = AttendanceResponse("mark_attendance", r.status, attendance_data)
            /\ UNCHANGED <<users, refTables, fees, exams, marks, timetable, workers>>

NextAttendance == MarkAttendance

SpecAttendance == Init /\ [][NextAttendance]_vars

RecordsFor(tbl, student_id, date) ==
    {a \in tbl : a.student_id = student_id /\ a.date = date}

\* C2: a mark_attendance request for a (student_id, date) pair that already
\* has a record is answered 400 and inserts nothing: the table is unchanged
\* and the pair still has exactly one record.
C2_DuplicateAttendanceRejected ==
    [][ (/\ response'.op = "mark_attendance"
         /\ RecordsFor(attendance, response'.student_id, response'.date) # {})
        => (/\ response'.status = 400
            /\ attendance' = attendance
            /\ Cardinality(RecordsFor(attendance', response'.student_id,
                                      response'.date)) = 1) ]_vars

C2_Witness ==
    /\ response.op = "mark_attendance"
    /\ response.status = 400
    /\ Cardinality(RecordsFor(attendance, response.student_id, response.date)) = 1

(* Two worker processes serve mark_attendance requests at the same time; a    *)
(* step is one call to the store: the existence query, then the insert (the   *)
(* read of the student's name that follows the insert changes nothing and is  *)
(* part of the insert step).                                                  *)

Workers == DOMAIN workers

\* requests in flight
Busy == {w \in Workers : workers[w].pc # "idle"}

ReceiveMarkAttendance(w) ==
    /\ workers[w].pc = "idle"
    /\ Cardinality(attendance) + Cardinality(Busy) < MaxAttendance
    /\ \E attendance_data \in AttendanceCreate :
           workers' = [workers EXCEPT ![w] = [pc |-> "query", data |-> attendance_data]]
    /\ UNCHANGED <<users, refTables, attendance, fees, exams, marks, timetable, response>>

QueryExistingAttendance(w) ==
    /\ workers[w].pc = "query"
    /\ LET data == workers[w].data
       IN  IF existing_attendance(attendance, data.student_id, data.date) # {}
           THEN /\ workers' = [workers EXCEPT ![w] = [pc |-> "idle"]]
                /\ response' = AttendanceResponse("mark_attendance", 400, data)
           ELSE /\ workers' = [workers EXCEPT ![w] = [pc |-> "insert", data |-> data]]
                /\ UNCHANGED response
    /\ UNCHANGED <<users, refTables, attendance, fees, exams, marks, timetable>>

InsertAttendance(w) ==
    /\ workers[w].pc = "insert"
    /\ LET data == workers[w].data
       IN  /\ attendance' = insert_attendance(attendance, data)
           /\ response' = AttendanceResponse("mark_attendance", 201, data)
    /\ workers' = [workers EXCEPT ![w] = [pc |-> "idle"]]
    /\ UNCHANGED <<users, refTables, fees, exams, marks, timetable>>

NextAttendanceConcurrent ==
    \/ \E w \in Workers : ReceiveMarkAttendance(w)
    \/ \E w \in Workers : QueryExistingAttendance(w)
    \/ \E w \in Workers : InsertAttendance(w)

SpecAttendanceConcurrent == Init /\ [][NextAttendanceConcurrent]_vars

\* C3: with two mark_attendance requests interleaved store call by store
\* call, the table never holds two records for one (student_id, date) pair.
C3_OneRecordPerStudentDate ==
    \A a, b \in attendance :
        (a.student_id = b.student_id /\ a.date = b.date) => a = b

-----------------------------------------------------------------------------
(* fees.py: POST /fees/, POST /fees/payment, PUT /fees/{fee_id} *)
(* Amounts are whole units of money.                                       *)

Amounts == 1..MaxAmount

FeeIdsOfRequests == 1..(MaxFees + 1)

\* the students fee requests name: one that exists and one that does not
FeeStudents == {"s1", NoStudent}

FeeCreate == [student_id : FeeStudents, amount : Amounts, status : FeeStatus]

FeePayment == [fee_id : FeeIdsOfRequests, amount_paid : Amounts]

\* the fields of FeeUpdate that a fee row of the model keeps (fee_type,
\* due_date and academic_year are in neither)
FeeUpdate == [student_id : Optional(FeeStudents),
              amount     : Optional(Amounts),
              status     : Optional(FeeStatus)]

FeeIds(tbl) == {f.fee_id : f \in tbl}

\* db.select_by_id("fees", "fee_id", fee_id): the rows found (none or one)
select_fee(tbl, fee_id) == {f \in tbl : f.fee_id = fee_id}

create_fee(tbl, studs, fee_data) ==
    IF fee_data.student_id \notin studs
    THEN [status |-> 404, fees |-> tbl]
    ELSE [status |-> 201,
          fees   |-> tbl \cup {[fee_id      |-> FreshId(FeeIds(tbl)),
                                student_id  |-> fee_data.student_id,
                                amount      |-> fee_data.amount,
                                amount_paid |-> 0,
                                status      |-> fee_data.status]}]

\* record_payment with the payment cut down to the balance due
record_payment_clamped(tbl, payment_data) ==
    IF select_fee(tbl, payment_data.fee_id) = {}
    THEN [status |-> 404, fees |-> tbl]
    ELSE LET fee == CHOOSE f \in select_fee(tbl, payment_data.fee_id) : TRUE
             sum == fee.amount_paid + payment_data.amount_paid
             new_paid_amount == IF sum > fee.amount THEN fee.amount ELSE sum
             new_status == IF fee.amount - new_paid_amount = 0 THEN "paid" ELSE "partial"
         IN  [status |-> 200,
              fees   |-> (tbl \ {fee}) \cup
                         {[fee EXCEPT !.amount_paid = new_paid_amount,
                                      !.status = new_status]}]

record_payment(tbl, payment_data) ==
    IF select_fee(tbl, payment_data.fee_id) = {}
    THEN [status |-> 404, fees |-> tbl]
    ELSE LET fee == CHOOSE f \in select_fee(tbl, payment_data.fee_id) : TRUE
             current_paid == fee.amount_paid
             total_amount == fee.amount
             new_paid_amount == current_paid + payment_data.amount_paid
             new_balance == total_amount - new_paid_amount
             new_status == IF new_balance = 0 THEN "paid" ELSE "partial"
         IN  IF new_paid_amount > total_amount
             THEN [status |-> 400, fees |-> tbl]
             ELSE [status |-> 200,
                   fees   |-> (tbl \ {fee}) \cup
                              {[fee EXCEPT !.amount_paid = new_paid_amount,
                                           !.status = new_status]}]

update_fee(tbl, studs, fee_id, fee_data) ==
    IF select_fee(tbl, fee_id) = {}
    THEN [status |-> 404, fees |-> tbl]
    ELSE IF \A k \in DOMAIN fee_data : fee_data[k] = <<>>
    THEN [status |-> 400, fees |-> tbl]
    ELSE IF fee_data.student_id # <<>> /\ fee_data.student_id[1] \notin studs
    THEN [status |-> 404, fees |-> tbl]
    ELSE LET fee == CHOOSE f \in select_fee(tbl, fee_id) : TRUE
             updated_fee ==
                 [fee EXCEPT
                    !.student_id = IF fee_data.student_id # <<>>
                                   THEN fee_data.student_id[1] ELSE @,
                    !.amount     = IF fee_data.amount # <<>>
                                   THEN fee_data.amount[1] ELSE @,
                    !.status     = IF fee_data.status # <<>>
                                   THEN fee_data.status[1] ELSE @]
         IN  [status |-> 200, fees |-> (tbl \ {fee}) \cup {updated_fee}]

CreateFee(fee_data) ==
    LET r == create_fee(fees, Col(students, "student_id"), fee_data)
    IN  /\ Cardinality(r.fees) <= MaxFees
        /\ fees' = r.fees
        /\ response' = [op |-> "create_fee", status |-> r.status]
        /\ UNCHANGED <<users, refTables, attendance, exams, marks, timetable, workers>>

RecordPayment(payment_data) ==
    LET r == record_payment(fees, payment_data)
    IN  /\ fees' = r.fees
        /\ response' = [op |-> "record_payment", status |-> r.status,
                        fee_id |-> payment_data.fee_id,
                        amount_paid |-> payment_data.amount_paid]
        /\ UNCHANGED <<users, refTables, attendance, exams, marks, timetable, workers>>

UpdateFee(fee_id, fee_data) ==
    LET r == update_fee(fees, Col(students, "student_id"), fee_id, fee_data)
    IN  /\ fees' = r.fees
        /\ response' = [op |-> "update_fee", status |-> r.status]
        /\ UNCHANGED <<users, refTables, attendance, exams, marks, timetable, workers>>

NextFees ==
    \/ \E fee_data \in FeeCreate : CreateFee(fee_data)
    \/ \E payment_data \in FeePayment : RecordPayment(payment_data)
    \/ \E fee_id \in FeeIdsOfRequests, fee_data \in FeeUpdate : UpdateFee(fee_id, fee_data)

SpecFees == Init /\ [][NextFees]_vars

\* C4: a record_payment request whose amount, added to the amount_paid of
\* the fee it names, exceeds the fee's amount is answered 400 and leaves
\* the fees table (amount_paid and status of every fee) unchanged.
C4_OverpaymentRejected ==
    [][ \A f \in fees :
          (/\ response'.op = "record_payment"
           /\ f.fee_id = response'.fee_id
           /\ f.amount_paid + response'.amount_paid > f.amount)
          => (response'.status = 400 /\ fees' = fees) ]_vars

C4_Witness ==
    /\ response.op = "record_payment"
    /\ response.status = 400
    /\ \E f \in fees : /\ f.fee_id = response.fee_id
                       /\ f.amount_paid <= f.amount
                       /\ f.amount_paid + response.amount_paid > f.amount

\* C5: every stored fee has amount_paid <= amount.
C5_PaidAtMostAmount == \A f \in fees : f.amount_paid <= f.amount

\* C19: a fee's status follows its payments: paid exactly when amount_paid
\* equals amount, partial exactly when 0 < amount_paid < amount, pending or
\* overdue only when amount_paid is 0.
C19_StatusFollowsPayments ==
    \A f \in fees :
        /\ f.status = "paid" <=> f.amount_paid = f.amount
        /\ f.status = "partial" <=> (0 < f.amount_paid /\ f.amount_paid < f.amount)
        /\ f.status \in {"pending", "overdue"} => f.amount_paid = 0

-----------------------------------------------------------------------------
(* exams.py: POST /exams/, PUT /exams/{exam_id}                            *)
(* marks.py: POST /marks/, POST /marks/bulk, PUT /marks/{mark_id}          *)
(* An exam row keeps exam_id and max_marks; a request's class_id and       *)
(* subject_id are looked up and not kept.  Marks are whole numbers.        *)

\* the ids the store gives to exams, in the order it gives them
ExamIdSpace == {1, 2}

Scores == {0, 1, 2}

ExamCreate == [class_id : {"c1", NoClass}, subject_id : {"sub1", NoSubject},
               max_marks : Scores \ {0}]

ExamUpdate == [class_id   : Optional({"c1", NoClass}),
               subject_id : Optional({"sub1", NoSubject}),
               max_marks  : Optional(Scores)]

MarkStudents == {"s1", NoStudent}

MarksCreate == [exam_id : ExamIdSpace, student_id : MarkStudents, marks_scored : Scores]

MarksUpdate == [marks_scored : Optional(Scores)]

MarkIdsOfRequests == 1..(MaxMarks + 1)

\* the entries of a bulk list
BulkMarksCreate == [exam_id : ExamIdSpace, student_id : {"s1"}, marks_scored : {0, 2}]

BulkLists == UNION {[1..n -> BulkMarksCreate] : n \in 0..MaxBulk}

ExamIds(tbl) == {e.exam_id : e \in tbl}

MarkIds(tbl) == {m.mark_id : m \in tbl}

select_exam(tbl, exam_id) == {e \in tbl : e.exam_id = exam_id}

select_mark(tbl, mark_id) == {m \in tbl : m.mark_id = mark_id}

create_exam(tbl, cls, subs, exam_data) ==
    IF exam_data.class_id \notin cls THEN [status |-> 404, exams |-> tbl]
    ELSE IF exam_data.subject_id \notin subs THEN [status |-> 404, exams |-> tbl]
    ELSE [status |-> 201,
          exams  |-> tbl \cup {[exam_id   |-> FreshId(ExamIds(tbl)),
                                max_marks |-> exam_data.max_marks]}]

update_exam(tbl, cls, subs, exam_id, exam_data) ==
    IF select_exam(tbl, exam_id) = {} THEN [status |-> 404, exams |-> tbl]
    ELSE IF \A k \in DOMAIN exam_data : exam_data[k] = <<>>
    THEN [status |-> 400, exams |-> tbl]
    ELSE IF exam_data.class_id # <<>> /\ exam_data.class_id[1] \notin cls
    THEN [status |-> 404, exams |-> tbl]
    ELSE IF exam_data.subject_id # <<>> /\ exam_data.subject_id[1] \notin subs
    THEN [status |-> 404, exams |-> tbl]
    ELSE LET exam == CHOOSE e \in select_exam(tbl, exam_id) : TRUE
             updated_exam == [exam EXCEPT !.max_marks = IF exam_data.max_marks # <<>>
                                                        THEN exam_data.max_marks[1] ELSE @]
         IN  [status |-> 200, exams |-> (tbl \ {exam}) \cup {updated_exam}]

\* db.select_one("marks", {"exam_id": .., "student_id": ..})
existing_mark(tbl, exam_id, student_id) ==
    {m \in tbl : m.exam_id = exam_id /\ m.student_id = student_id}

insert_mark(tbl, mark_dict) ==
    tbl \cup {[mark_id      |-> FreshId(MarkIds(tbl)),
               exam_id      |-> mark_dict.exam_id,
               student_id   |-> mark_dict.student_id,
               marks_scored |-> mark_dict.marks_scored]}

\* create_mark with step 3, the validation against max_marks, left out
create_mark_unvalidated(tbl, exms, studs, mark_data) ==
    IF select_exam(exms, mark_data.exam_id) = {} THEN [status |-> 404, marks |-> tbl]
    ELSE IF mark_data.student_id \notin studs THEN [status |-> 404, marks |-> tbl]
    ELSE IF existing_mark(tbl, mark_data.exam_id, mark_data.student_id) # {}
    THEN [status |-> 400, marks |-> tbl]
    ELSE [status |-> 201, marks |-> insert_mark(tbl, mark_data)]

create_mark(tbl, exms, studs, mark_data) ==
    IF select_exam(exms, mark_data.exam_id) = {} THEN [status |-> 404, marks |-> tbl]
    ELSE IF mark_data.student_id \notin studs THEN [status |-> 404, marks |-> tbl]
    ELSE IF existing_mark(tbl, mark_data.exam_id, mark_data.student_id) # {}
    THEN [status |-> 400, marks |-> tbl]
    ELSE LET exam == CHOOSE e \in select_exam(exms, mark_data.exam_id) : TRUE
             max_marks == exam.max_marks
         IN  IF mark_data.marks_scored > max_marks
             THEN [status |-> 400, marks |-> tbl]
             ELSE [status |-> 201, marks |-> insert_mark(tbl, mark_data)]

\* the loop of create_bulk_marks: the entries it keeps, in the list's order
RECURSIVE records_to_insert(_, _, _)
records_to_insert(marks_list, first_exam_id, max_marks) ==
    IF marks_list = <<>> THEN <<>>
    ELSE LET mark_data == Head(marks_list)
             rest == records_to_insert(Tail(marks_list), first_exam_id, max_marks)
         IN  IF mark_data.exam_id # first_exam_id THEN rest
             ELSE IF mark_data.marks_scored > max_marks THEN rest
             ELSE <<mark_data>> \o rest

\* db.insert_many("marks", records)
RECURSIVE insert_many_marks(_, _)
insert_many_marks(tbl, records) ==
    IF records = <<>> THEN tbl
    ELSE insert_many_marks(insert_mark(tbl, Head(records)), Tail(records))

create_bulk_marks(tbl, exms, marks_list) ==
    IF marks_list = <<>> THEN [status |-> 400, marks |-> tbl]
    ELSE LET first_exam_id == marks_list[1].exam_id
         IN  IF select_exam(exms, first_exam_id) = {}
             THEN [status |-> 404, marks |-> tbl]
             ELSE LET exam == CHOOSE e \in select_exam(exms, first_exam_id) : TRUE
                      records == records_to_insert(marks_list, first_exam_id,
                                                   exam.max_marks)
                  IN  [status |-> 201, marks |-> insert_many_marks(tbl, records)]

update_mark(tbl, exms, mark_id, mark_data) ==
    IF select_mark(tbl, mark_id) = {} THEN [status |-> 404, marks |-> tbl]
    ELSE IF mark_data.marks_scored = <<>> THEN [status |-> 400, marks |-> tbl]
    ELSE LET existing_mark_row == CHOOSE m \in select_mark(tbl, mark_id) : TRUE
             exam_rows == select_exam(exms, existing_mark_row.exam_id)
         IN  IF exam_rows = {} THEN [status |-> 404, marks |-> tbl]
             ELSE LET exam == CHOOSE e \in exam_rows : TRUE
                  IN  IF mark_data.marks_scored[1] > exam.max_marks
                      THEN [status |-> 400, marks |-> tbl]
                      ELSE [status |-> 200,
                            marks  |-> (tbl \ {existing_mark_row}) \cup
                                       {[existing_mark_row EXCEPT
                                           !.marks_scored = mark_data.marks_scored[1]]}]

CreateExam(exam_data) ==
    LET r == create_exam(exams, Col(classes, "class_id"), subjects, exam_data)
    IN  /\ ExamIds(r.exams) \subseteq ExamIdSpace
        /\ exams' = r.exams
        /\ response' = [op |-> "create_exam", status |-> r.status]
        /\ UNCHANGED <<users, refTables, attendance, fees, marks, timetable, workers>>

UpdateExam(exam_id, exam_data) ==
    LET r == update_exam(exams, Col(classes, "class_id"), subjects, exam_id, exam_data)
    IN  /\ exams' = r.exams
        /\ response' = [op |-> "update_exam", status |-> r.status]
        /\ UNCHANGED <<users, refTables, attendance, fees, marks, timetable, workers>>

CreateMark(mark_data) ==
    LET r == create_mark(marks, exams, Col(students, "student_id"), mark_data)
    IN  /\ Cardinality(r.marks) <= MaxMarks
        /\ marks' = r.marks
        /\ response' = [op |-> "create_mark", status |-> r.status,
                        exam_id |-> mark_data.exam_id,
                        marks_scored |-> mark_data.marks_scored]
        /\ UNCHANGED <<users, refTables, attendance, fees, exams, timetable, workers>>

CreateBulkMarks(marks_list) ==
    LET r == create_bulk_marks(marks, exams, marks_list)
    IN  /\ Cardinality(r.marks) <= MaxMarks
        /\ marks' = r.marks
        /\ response' = [op |-> "create_bulk_marks", status |-> r.status]
        /\ UNCHANGED <<users, refTables, attendance, fees, exams, timetable, workers>>

UpdateMark(mark_id, mark_data) ==
    LET r == update_mark(marks, exams, mark_id, mark_data)
    IN  /\ marks' = r.marks
        /\ response' = [op |-> "update_mark", status |-> r.status]
        /\ UNCHANGED <<users, refTables, attendance, fees, exams, timetable, workers>>

NextMarks ==
    \/ \E exam_data \in ExamCreate : CreateExam(exam_data)
    \/ \E exam_id \in ExamIdSpace, exam_data \in ExamUpdate : UpdateExam(exam_id, exam_data)
    \/ \E mark_data \in MarksCreate : CreateMark(mark_data)
    \/ \E marks_list \in BulkLists : CreateBulkMarks(marks_list)
    \/ \E mark_id \in MarkIdsOfRequests, mark_data \in MarksUpdate :
           UpdateMark(mark_id, mark_data)

SpecMarks == Init /\ [][NextMarks]_vars

NextMarksCreate ==
    \/ \E exam_data \in ExamCreate : CreateExam(exam_data)
    \/ \E mark_data \in MarksCreate : CreateMark(mark_data)
    \/ \E marks_list \in BulkLists : CreateBulkMarks(marks_list)

SpecMarksCreate == Init /\ [][NextMarksCreate]_vars

\* C6: a create_mark request whose marks_scored is greater than the
\* max_marks of the exam it names is answered with a client error (400 or
\* 404) and the marks table is the same before and after.
C6_ExcessMarksRejected ==
    [][ \A e \in exams :
          (/\ response'.op = "create_mark"
           /\ e.exam_id = response'.exam_id
           /\ response'.marks_scored > e.max_marks)
          => (response'.status \in {400, 404} /\ marks' = marks) ]_vars

C6_Witness ==
    /\ response.op = "create_mark"
    /\ response.status = 400
    /\ \E e \in exams : /\ e.exam_id = response.exam_id
                        /\ response.marks_scored > e.max_marks
    /\ \A m \in marks : m.exam_id # response.exam_id

\* C7: each stored mark's marks_scored is at most the max_marks of its
\* exam, and every exam's max_marks is greater than 0.
C7_MarksWithinMax ==
    /\ \A m \in marks : \A e \in exams :
           m.exam_id = e.exam_id => m.marks_scored <= e.max_marks
    /\ \A e \in exams : e.max_marks > 0

\* C8: the marks table holds at most one record per (exam_id, student_id).
C8_OneMarkPerExamStudent ==
    \A a, b \in marks :
        (a.exam_id = b.exam_id /\ a.student_id = b.student_id) => a = b

-----------------------------------------------------------------------------
(* timetable.py: POST /timetable/, PUT and DELETE /timetable/{timetable_id} *)
(* A timetable row keeps timetable_id, class_id, day, period_number and     *)
(* teacher_id; a request's subject_id is looked up and not kept.            *)

Days == {"Monday", "Tuesday"}

Periods == {1, 2}

TimetableCreate == [class_id   : ClassIds \cup {NoClass},
                    subject_id : SubjectIds \cup {NoSubject},
                    teacher_id : TeacherIds \cup {NoTeacher},
                    day : Days, period_number : Periods]

\* the partial updates served: any of teacher_id, day and period_number,
\* or class_id alone, or subject_id alone
TimetableUpdate ==
    [class_id : {<<>>}, subject_id : {<<>>},
     teacher_id : Optional(TeacherIds \cup {NoTeacher}),
     day : Optional(Days), period_number : Optional(Periods)]
    \cup [class_id : {<<c>> : c \in ClassIds}, subject_id : {<<>>},
          teacher_id : {<<>>}, day : {<<>>}, period_number : {<<>>}]
    \cup [class_id : {<<>>}, subject_id : {<<"sub1">>, <<NoSubject>>},
          teacher_id : {<<>>}, day : {<<>>}, period_number : {<<>>}]

TimetableIdsOfRequests == 1..(MaxEntries + 1)

TimetableIds(tbl) == {e.timetable_id : e \in tbl}

select_entry(tbl, timetable_id) == {e \in tbl : e.timetable_id = timetable_id}

\* the rows that match {"class_id": .., "day": .., "period_number": ..}
class_slot_rows(tbl, class_id, day, period_number) ==
    {e \in tbl : e.class_id = class_id /\ e.day = day /\ e.period_number = period_number}

\* the rows that match {"teacher_id": .., "day": .., "period_number": ..}
teacher_slot_rows(tbl, teacher_id, day, period_number) ==
    {e \in tbl : e.teacher_id = teacher_id /\ e.day = day
                 /\ e.period_number = period_number}

\* what db.select_one may answer when `rows` match: nothing when none does,
\* else any one of them (limit(1) with no order); an answer is a set of at
\* most one row
select_one(rows) == IF rows = {} THEN {{}} ELSE {{e} : e \in rows}

\* create_timetable_entry with step 3, the teacher's conflict check, left out
create_timetable_entry_no_teacher_check(tbl, cls, subs, tchs, entry_data) ==
    IF entry_data.class_id \notin cls THEN [status |-> 404, timetable |-> tbl]
    ELSE IF entry_data.subject_id \notin subs THEN [status |-> 404, timetable |-> tbl]
    ELSE IF entry_data.teacher_id \notin tchs THEN [status |-> 404, timetable |-> tbl]
    ELSE IF class_slot_rows(tbl, entry_data.class_id, entry_data.day,
                            entry_data.period_number) # {}
    THEN [status |-> 409, timetable |-> tbl]
    ELSE [status |-> 201,
          timetable |-> tbl \cup {[timetable_id  |-> FreshId(TimetableIds(tbl)),
                                   class_id      |-> entry_data.class_id,
                                   day           |-> entry_data.day,
                                   period_number |-> entry_data.period_number,
                                   teacher_id    |-> entry_data.teacher_id]}]

create_timetable_entry(tbl, cls, subs, tchs, entry_data) ==
    IF entry_data.class_id \notin cls THEN [status |-> 404, timetable |-> tbl]
    ELSE IF entry_data.subject_id \notin subs THEN [status |-> 404, timetable |-> tbl]
    ELSE IF entry_data.teacher_id \notin tchs THEN [status |-> 404, timetable |-> tbl]
    ELSE IF class_slot_rows(tbl, entry_data.class_id, entry_data.day,
                            entry_data.period_number) # {}
    THEN [status |-> 409, timetable |-> tbl]
    ELSE IF teacher_slot_rows(tbl, entry_data.teacher_id, entry_data.day,
                              entry_data.period_number) # {}
    THEN [status |-> 409, timetable |-> tbl]
    ELSE [status |-> 201,
          timetable |-> tbl \cup {[timetable_id  |-> FreshId(TimetableIds(tbl)),
                                   class_id      |-> entry_data.class_id,
                                   day           |-> entry_data.day,
                                   period_number |-> entry_data.period_number,
                                   teacher_id    |-> entry_data.teacher_id]}]

\* f"{key.split('_')[0]}s": the table update_timetable_entry looks a changed
\* reference up in
table_name(key) ==
    CASE key = "class_id"   -> "classs"
      [] key = "subject_id" -> "subjects"
      [] key = "teacher_id" -> "teachers"

\* the tables the endpoints read and write
StoreTables == {"users", "students", "teachers", "parents", "classes", "subjects",
                "attendance", "exams", "marks", "homework", "submissions", "fees",
                "timetable", "announcements", "leave_requests", "parent_student"}

\* merged_data with the fields the request leaves out not filled in from the
\* stored row: the conflict checks see a changed field only
merged_data_unmerged(existing_entry, update_data) ==
    [existing_entry EXCEPT
       !.class_id      = IF update_data.class_id # <<>>
                         THEN update_data.class_id[1] ELSE NoClass,
       !.teacher_id    = IF update_data.teacher_id # <<>>
                         THEN update_data.teacher_id[1] ELSE NoTeacher,
       !.day           = IF update_data.day # <<>> THEN update_data.day[1] ELSE @,
       !.period_number = IF update_data.period_number # <<>>
                         THEN update_data.period_number[1] ELSE @]

\* existing_entry.copy() updated with update_data
merged_data(existing_entry, update_data) ==
    [existing_entry EXCEPT
       !.class_id      = IF update_data.class_id # <<>>
                         THEN update_data.class_id[1] ELSE @,
       !.teacher_id    = IF update_data.teacher_id # <<>>
                         THEN update_data.teacher_id[1] ELSE @,
       !.day           = IF update_data.day # <<>> THEN update_data.day[1] ELSE @,
       !.period_number = IF update_data.period_number # <<>>
                         THEN update_data.period_number[1] ELSE @]

\* the answers update_timetable_entry may give (one for each answer the two
\* select_one calls may give)
update_timetable_entry(tbl, subs, tchs, timetable_id, entry_data) ==
    IF select_entry(tbl, timetable_id) = {} THEN {[status |-> 404, timetable |-> tbl]}
    ELSE IF \A k \in DOMAIN entry_data : entry_data[k] = <<>>
    THEN {[status |-> 400, timetable |-> tbl]}
    ELSE IF entry_data.class_id # <<>> /\ table_name("class_id") \notin StoreTables
    THEN {[status |-> 500, timetable |-> tbl]}
    ELSE IF entry_data.subject_id # <<>> /\ entry_data.subject_id[1] \notin subs
    THEN {[status |-> 404, timetable |-> tbl]}
    ELSE IF entry_data.teacher_id # <<>> /\ entry_data.teacher_id[1] \notin tchs
    THEN {[status |-> 404, timetable |-> tbl]}
    ELSE LET existing_entry == CHOOSE e \in select_entry(tbl, timetable_id) : TRUE
             merged == merged_data(existing_entry, entry_data)
             updated_entry ==
                 [existing_entry EXCEPT
                    !.class_id      = IF entry_data.class_id # <<>>
                                      THEN entry_data.class_id[1] ELSE @,
                    !.teacher_id    = IF entry_data.teacher_id # <<>>
                                      THEN entry_data.teacher_id[1] ELSE @,
                    !.day           = IF entry_data.day # <<>>
                                      THEN entry_data.day[1] ELSE @,
                    !.period_number = IF entry_data.period_number # <<>>
                                      THEN entry_data.period_number[1] ELSE @]
         IN  {IF \E c \in class_conflict : c.timetable_id # timetable_id
              THEN [status |-> 409, timetable |-> tbl]
              ELSE IF \E t \in teacher_conflict : t.timetable_id # timetable_id
              THEN [status |-> 409, timetable |-> tbl]
              ELSE [status |-> 200,
                    timetable |-> (tbl \ {existing_entry}) \cup {updated_entry}] :
                class_conflict \in select_one(class_slot_rows(
                    tbl, merged.class_id, merged.day, merged.period_number)),
                teacher_conflict \in select_one(teacher_slot_rows(
                    tbl, merged.teacher_id, merged.day, merged.period_number))}

delete_timetable_entry(tbl, timetable_id) ==
    IF select_entry(tbl, timetable_id) = {} THEN [status |-> 404, timetable |-> tbl]
    ELSE [status |-> 204, timetable |-> tbl \ select_entry(tbl, timetable_id)]

\* what a create request meets in the store: whether the rows it refers to
\* exist, whether its class already has an entry at its day and period, and
\* whether its teacher already has one there in another class
ClassClash(tbl, entry_data) ==
    \E e \in tbl : /\ e.class_id = entry_data.class_id
                   /\ e.day = entry_data.day
                   /\ e.period_number = entry_data.period_number

TeacherClash(tbl, entry_data) ==
    \E e \in tbl : /\ e.teacher_id = entry_data.teacher_id
                   /\ e.class_id # entry_data.class_id
                   /\ e.day = entry_data.day
                   /\ e.period_number = entry_data.period_number

CreateTimetableEntry(entry_data) ==
    LET r == create_timetable_entry(timetable, Col(classes, "class_id"), subjects,
                                    Col(teachers, "teacher_id"), entry_data)
    IN  /\ TimetableIds(r.timetable) \subseteq 1..MaxEntries
        /\ timetable' = r.timetable
        /\ response' = [op |-> "create_timetable_entry", status |-> r.status,
                        refs_exist |-> /\ entry_data.class_id \in Col(classes, "class_id")
                                       /\ entry_data.subject_id \in subjects
                                       /\ entry_data.teacher_id \in Col(teachers, "teacher_id"),
                        class_clash |-> ClassClash(timetable, entry_data),
                        teacher_clash |-> TeacherClash(timetable, entry_data)]
        /\ UNCHANGED <<users, refTables, attendance, fees, exams, marks, workers>>

UpdateTimetableEntry(timetable_id, entry_data) ==
    \E r \in update_timetable_entry(timetable, subjects, Col(teachers, "teacher_id"),
                                    timetable_id,
                                    entry_data) :
        /\ timetable' = r.timetable
        /\ response' = [op |-> "update_timetable_entry", status |-> r.status]
        /\ UNCHANGED <<users, refTables, attendance, fees, exams, marks, workers>>

DeleteTimetableEntry(timetable_id) ==
    LET r == delete_timetable_entry(timetable, timetable_id)
    IN  /\ timetable' = r.timetable
        /\ response' = [op |-> "delete_timetable_entry", status |-> r.status]
        /\ UNCHANGED <<users, refTables, attendance, fees, exams, marks, workers>>

NextTimetable ==
    \/ \E entry_data \in TimetableCreate : CreateTimetableEntry(entry_data)
    \/ \E timetable_id \in TimetableIdsOfRequests, entry_data \in TimetableUpdate :
           UpdateTimetableEntry(timetable_id, entry_data)
    \/ \E timetable_id \in TimetableIdsOfRequests : DeleteTimetableEntry(timetable_id)

SpecTimetable == Init /\ [][NextTimetable]_vars

\* C9 as stated: a create_timetable_entry request whose class already has
\* an entry at its day and period, or whose teacher already has one there in
\* another class, is answered 409 and inserts nothing.
C9_ClashAnswered409 ==
    [][ (/\ response'.op = "create_timetable_entry"
         /\ (response'.class_clash \/ response'.teacher_clash))
        => (response'.status = 409 /\ timetable' = timetable) ]_vars

\* C9 as amended: such a request is answered 409 when the class, subject and
\* teacher it names exist and 404 when one of them does not, and in both
\* cases inserts nothing.
C9_ClashRejected ==
    [][ (/\ response'.op = "create_timetable_entry"
         /\ (response'.class_clash \/ response'.teacher_clash))
        => (/\ response'.status = IF response'.refs_exist THEN 409 ELSE 404
            /\ timetable' = timetable) ]_vars

C9_Witness ==
    /\ response.op = "create_timetable_entry"
    /\ response.status = 409
    /\ response.teacher_clash
    /\ ~response.class_clash

\* C10: no two timetable entries share (class_id, day, period_number) and
\* no two share (teacher_id, day, period_number).
C10_SlotsUnique ==
    \A a, b \in timetable :
        (/\ a.day = b.day
         /\ a.period_number = b.period_number
         /\ (a.class_id = b.class_id \/ a.teacher_id = b.teacher_id))
        => a = b

C10_Witness ==
    /\ response = [op |-> "update_timetable_entry", status |-> 409]
    /\ Cardinality(timetable) = 2
    /\ \A a, b \in timetable : a.class_id = b.class_id => a = b

-----------------------------------------------------------------------------
(* core/security.py: the callers.  A caller is the payload of a verified   *)
(* token: the user's id (sub) and role.                                    *)

Callers ==
    {[sub |-> "u_admin", role |-> "admin"],
     [sub |-> "u_master", role |-> "master"],
     [sub |-> "u_t1", role |-> "teacher"],
     [sub |-> "u_t2", role |-> "teacher"],
     [sub |-> "u_t0", role |-> "teacher"],
     [sub |-> "u_s1", role |-> "student"],
     [sub |-> "u_s2", role |-> "student"],
     [sub |-> "u_s0", role |-> "student"],
     [sub |-> "u_p1", role |-> "parent"],
     [sub |-> "u_p2", role |-> "parent"],
     [sub |-> "u_p0", role |-> "parent"]}

CallersOf(roles) == {c \in Callers : c.role \in roles}

\* the dependencies of the endpoints: TRUE when the caller is let through
\* (a 403 is answered otherwise)
get_current_user(current_user) == TRUE

require_admin(current_user) == current_user.role \in {"admin", "master"}

require_teacher(current_user) == current_user.role \in {"teacher", "admin", "master"}

-----------------------------------------------------------------------------
(* parents.py: link and unlink; fees.py: GET /fees/; students.py: GET      *)
(* /students/                                                              *)

\* rows of table tbl whose column c holds v
rows_where(tbl, c, v) == {r \in tbl : r[c] = v}

link_student_to_parent(links, prnts, studs, parent_id, student_id) ==
    IF parent_id \notin Col(prnts, "parent_id") THEN [status |-> 404, links |-> links]
    ELSE IF student_id \notin Col(studs, "student_id")
    THEN [status |-> 404, links |-> links]
    ELSE IF \E l \in links : l.parent_id = parent_id /\ l.student_id = student_id
    THEN [status |-> 400, links |-> links]
    ELSE [status |-> 200,
          links |-> links \cup {[parent_id |-> parent_id, student_id |-> student_id]}]

unlink_student_from_parent(links, parent_id, student_id) ==
    IF ~ \E l \in links : l.parent_id = parent_id /\ l.student_id = student_id
    THEN [status |-> 404, links |-> links]
    ELSE [status |-> 200,
          links |-> {l \in links : ~(l.parent_id = parent_id
                                     /\ l.student_id = student_id)}]

\* db.select_all("fees", filters): a filter is <<>> when not set
select_all_fees(fee_tbl, student_filter, status_filter) ==
    {f \in fee_tbl : /\ student_filter = <<>> \/ f.student_id = student_filter[1]
                     /\ status_filter = <<>> \/ f.status = status_filter[1]}

\* get_fees without the post-fetch filter of the parent role
get_fees_unfiltered(fee_tbl, studs, prnts, links, current_user, student_id, status) ==
    {[status |-> 200, body |-> select_all_fees(fee_tbl, student_id, status)]}

\* the answers get_fees may give; the body is the set of the fee rows listed
get_fees(fee_tbl, studs, prnts, links, current_user, student_id, status) ==
    IF current_user.role = "student"
    THEN {IF student = {} THEN [status |-> 200, body |-> {}]
          ELSE LET own == CHOOSE r \in student : TRUE
               IN  [status |-> 200,
                    body |-> select_all_fees(fee_tbl, <<own.student_id>>, status)] :
            student \in select_one(rows_where(studs, "user_id", current_user.sub))}
    ELSE IF current_user.role = "parent"
    THEN {IF parent = {} THEN [status |-> 200, body |-> {}]
          ELSE LET student_ids_allowed ==
                       Col(rows_where(links, "parent_id",
                                      (CHOOSE r \in parent : TRUE).parent_id),
                           "student_id")
               IN  IF student_ids_allowed = {} THEN [status |-> 200, body |-> {}]
                   ELSE IF student_id # <<>> /\ student_id[1] \notin student_ids_allowed
                   THEN [status |-> 403, body |-> {}]
                   ELSE [status |-> 200,
                         body |-> {f \in select_all_fees(fee_tbl, student_id, status) :
                                     f.student_id \in student_ids_allowed}] :
            parent \in select_one(rows_where(prnts, "user_id", current_user.sub))}
    ELSE {[status |-> 200, body |-> select_all_fees(fee_tbl, student_id, status)]}

\* the fee tables a listing may find: up to MaxListedFees unpaid fees, each
\* of one of the students
ListedFeeTables ==
    UNION {{ {[fee_id |-> i, student_id |-> owner[i], amount |-> 1,
               amount_paid |-> 0, status |-> "pending"] : i \in 1..n} :
             owner \in [1..n -> StudentIds]} : n \in 0..MaxListedFees}

InitParentViews ==
    /\ users = {}
    /\ students = StudentRows
    /\ classes = ClassRows
    /\ subjects = SubjectIds
    /\ teachers = TeacherRows
    /\ parents = ParentRows
    /\ parent_student = {}
    /\ announcements = {}
    /\ leave_requests = {}
    /\ attendance = {}
    /\ fees \in ListedFeeTables
    /\ exams = {}
    /\ marks = {}
    /\ timetable = {}
    /\ workers = [w \in {1, 2} |-> [pc |-> "idle"]]
    /\ tokens = {}
    /\ response = NoResponse

LinkStudentToParent(parent_id, student_id) ==
    LET r == link_student_to_parent(parent_student, parents, students,
                                    parent_id, student_id)
    IN  /\ parent_student' = r.links
        /\ response' = [op |-> "link_student_to_parent", status |-> r.status]
        /\ UNCHANGED <<users, students, classes, subjects, teachers, parents,
                       announcements, leave_requests, attendance, fees, exams,
                       marks, timetable, workers, tokens>>

UnlinkStudentFromParent(parent_id, student_id) ==
    LET r == unlink_student_from_parent(parent_student, parent_id, student_id)
    IN  /\ parent_student' = r.links
        /\ response' = [op |-> "unlink_student_from_parent", status |-> r.status]
        /\ UNCHANGED <<users, students, classes, subjects, teachers, parents,
                       announcements, leave_requests, attendance, fees, exams,
                       marks, timetable, workers, tokens>>

GetFees(current_user, student_id, status) ==
    \E r \in get_fees(fees, students, parents, parent_student, current_user,
                      student_id, status) :
        /\ response' = [op |-> "get_fees", status |-> r.status,
                        current_user |-> current_user,
                        filtered |-> (student_id # <<>> \/ status # <<>>),
                        body |-> r.body]
        /\ UNCHANGED <<users, refTables, attendance, fees, exams, marks, timetable,
                       workers>>

\* the children linked to the parent profile of a user
LinkedChildren(prnts, links, sub) ==
    {l.student_id : l \in {k \in links : \E pr \in prnts :
                               pr.user_id = sub /\ pr.parent_id = k.parent_id}}

\* C11: a parent with a parent profile and linked children who lists the
\* fees with no filter is answered with exactly the fees of the linked
\* children.
C11_ParentSeesChildrenFees ==
    (/\ response.op = "get_fees"
     /\ response.current_user.role = "parent"
     /\ ~response.filtered
     /\ LinkedChildren(parents, parent_student, response.current_user.sub) # {})
    => /\ response.status = 200
       /\ response.body =
              {f \in fees : f.student_id \in
                   LinkedChildren(parents, parent_student, response.current_user.sub)}

C11_Witness ==
    /\ response.op = "get_fees"
    /\ response.current_user.role = "parent"
    /\ ~response.filtered
    /\ Cardinality(LinkedChildren(parents, parent_student,
                                  response.current_user.sub)) = 2
    /\ response.body # {}
    /\ response.body # fees

Pages == {1, 2}

PageSizes == {2, 20}

\* db.paginate(table, page, page_size, filters, "name") over the rows that
\* pass the filters: the rows at positions (page - 1) * page_size + 1 to
\* page * page_size in the order of name
paginate(rows, page, page_size) ==
    LET start == (page - 1) * page_size
        end == start + page_size - 1
        position(r) == Cardinality({q \in rows : q.name < r.name})
    IN  {r \in rows : start <= position(r) /\ position(r) <= end}

\* the body is the set of the student rows of the page
get_students(studs, links, current_user, class_id, page, page_size) ==
    IF current_user.role = "student"
    THEN [status |-> 200,
          body |-> paginate(rows_where(studs, "user_id", current_user.sub),
                            page, page_size)]
    ELSE IF current_user.role = "parent"
    THEN LET parent_data == rows_where(links, "parent_id", current_user.sub)
             student_ids == Col(parent_data, "student_id")
         IN  [status |-> 200, body |-> paginate(studs, page, page_size)]
    ELSE IF class_id # <<>>
    THEN [status |-> 200,
          body |-> paginate(rows_where(studs, "class_id", class_id[1]),
                            page, page_size)]
    ELSE [status |-> 200, body |-> paginate(studs, page, page_size)]

GetStudents(current_user, class_id, page, page_size) ==
    LET r == get_students(students, parent_student, current_user, class_id,
                          page, page_size)
    IN  /\ response' = [op |-> "get_students", status |-> r.status,
                        current_user |-> current_user, body |-> r.body]
        /\ UNCHANGED <<users, refTables, attendance, fees, exams, marks, timetable,
                       workers>>

\* the callers of the listings
ViewCallers ==
    CallersOf({"parent"}) \cup {c \in Callers : c.sub \in {"u_admin", "u_s1"}}

\* the (parent_id, student_id) pairs of the link and unlink requests
LinkRequests ==
    {<<"p1", "s1">>, <<"p1", "s2">>, <<"p2", "s2">>, <<"p2", "s3">>,
     <<"p0", "s1">>, <<"p1", NoStudent>>}

NextParentViews ==
    \/ \E l \in LinkRequests : LinkStudentToParent(l[1], l[2])
    \/ \E l \in LinkRequests : UnlinkStudentFromParent(l[1], l[2])
    \/ \E current_user \in ViewCallers, student_id \in Optional({"s1", "s3"}),
          status \in Optional({"pending"}) :
           GetFees(current_user, student_id, status)
    \/ \E current_user \in ViewCallers, class_id \in Optional({"c1"}),
          page \in Pages, page_size \in PageSizes :
           GetStudents(current_user, class_id, page, page_size)

SpecParentViews == InitParentViews /\ [][NextParentViews]_vars

\* C12: the students listed for a parent are all children linked to that
\* parent.
C12_ParentSeesOnlyChildren ==
    (response.op = "get_students" /\ response.current_user.role = "parent")
    => \A r \in response.body :
           r.student_id \in LinkedChildren(parents, parent_student,
                                           response.current_user.sub)

-----------------------------------------------------------------------------
(* announcements.py: POST /announcements/, PUT and DELETE                   *)
(* /announcements/{announcement_id}.  An announcement row keeps            *)
(* announcement_id, teacher_id, title and class_id (<<>> when it has none). *)

Titles == {"Notice", "Holiday"}

AnnouncementCreate ==
    [teacher_id : TeacherIds \cup {NoTeacher}, title : {"Notice"},
     class_id : Optional({"c1", NoClass})]

AnnouncementUpdate ==
    [title : Optional(Titles), class_id : Optional({"c1", NoClass})]

AnnouncementIdsOfRequests == 1..(MaxAnnouncements + 1)

\* the callers of the announcement endpoints
AnnouncementCallers ==
    CallersOf({"admin", "master", "teacher"}) \cup {c \in Callers : c.sub = "u_s1"}

AnnouncementIds(tbl) == Col(tbl, "announcement_id")

create_announcement(tbl, tchs, cls, announcement_data, current_user) ==
    IF ~require_teacher(current_user) THEN [status |-> 403, announcements |-> tbl]
    ELSE IF announcement_data.teacher_id \notin Col(tchs, "teacher_id")
    THEN [status |-> 404, announcements |-> tbl]
    ELSE IF /\ announcement_data.class_id # <<>>
            /\ announcement_data.class_id[1] \notin Col(cls, "class_id")
    THEN [status |-> 404, announcements |-> tbl]
    ELSE [status |-> 201,
          announcements |-> tbl \cup
              {[announcement_id |-> FreshId(AnnouncementIds(tbl)),
                teacher_id |-> announcement_data.teacher_id,
                title      |-> announcement_data.title,
                class_id   |-> announcement_data.class_id]}]

\* step 2 with the author's check left out: every caller the role gate lets
\* through may change the announcement
admin_or_author_unchecked(existing, teacher, current_user) == TRUE

\* step 2 of update_announcement and of delete_announcement: TRUE when the
\* caller is the admin or the author; `teacher` is the answer of
\* db.select_one("teachers", {"user_id": current_user.sub})
admin_or_author(existing, teacher, current_user) ==
    \/ current_user.role = "admin"
    \/ \E t \in teacher : existing.teacher_id = t.teacher_id

\* the answers update_announcement may give.  Step 6 reads the name
\* updated_chn, which is bound nowhere: once the row is written the handler
\* raises NameError and the generic except answers 500.
update_announcement(tbl, tchs, cls, announcement_id, announcement_data, current_user) ==
    IF ~require_teacher(current_user) THEN {[status |-> 403, announcements |-> tbl]}
    ELSE IF rows_where(tbl, "announcement_id", announcement_id) = {}
    THEN {[status |-> 404, announcements |-> tbl]}
    ELSE LET existing == CHOOSE a \in tbl : a.announcement_id = announcement_id
             updated_ann ==
                 [existing EXCEPT
                    !.title    = IF announcement_data.title # <<>>
                                 THEN announcement_data.title[1] ELSE @,
                    !.class_id = IF announcement_data.class_id # <<>>
                                 THEN announcement_data.class_id ELSE @]
         IN  {IF ~admin_or_author(existing, teacher, current_user)
              THEN [status |-> 403, announcements |-> tbl]
              ELSE IF \A k \in DOMAIN announcement_data : announcement_data[k] = <<>>
              THEN [status |-> 400, announcements |-> tbl]
              ELSE IF /\ announcement_data.class_id # <<>>
                      /\ announcement_data.class_id[1] \notin Col(cls, "class_id")
              THEN [status |-> 404, announcements |-> tbl]
              ELSE [status |-> 500,
                    announcements |-> (tbl \ {existing}) \cup {updated_ann}] :
                teacher \in select_one(rows_where(tchs, "user_id", current_user.sub))}

delete_announcement(tbl, tchs, announcement_id, current_user) ==
    IF ~require_teacher(current_user) THEN {[status |-> 403, announcements |-> tbl]}
    ELSE IF rows_where(tbl, "announcement_id", announcement_id) = {}
    THEN {[status |-> 404, announcements |-> tbl]}
    ELSE LET existing == CHOOSE a \in tbl : a.announcement_id = announcement_id
         IN  {IF ~admin_or_author(existing, teacher, current_user)
              THEN [status |-> 403, announcements |-> tbl]
              ELSE [status |-> 204, announcements |-> tbl \ {existing}] :
                teacher \in select_one(rows_where(tchs, "user_id", current_user.sub))}

CreateAnnouncement(announcement_data, current_user) ==
    LET r == create_announcement(announcements, teachers, classes,
                                 announcement_data, current_user)
    IN  /\ AnnouncementIds(r.announcements) \subseteq 1..MaxAnnouncements
        /\ announcements' = r.announcements
        /\ response' = [op |-> "create_announcement", status |-> r.status]
        /\ UNCHANGED <<users, students, classes, subjects, teachers, parents,
                       parent_student, leave_requests, attendance, fees, exams,
                       marks, timetable, workers, tokens>>

UpdateAnnouncement(announcement_id, announcement_data, current_user) ==
    \E r \in update_announcement(announcements, teachers, classes, announcement_id,
                                 announcement_data, current_user) :
        /\ announcements' = r.announcements
        /\ response' = [op |-> "update_announcement", status |-> r.status,
                        current_user |-> current_user,
                        announcement_id |-> announcement_id,
                        announcement_data |-> announcement_data]
        /\ UNCHANGED <<users, students, classes, subjects, teachers, parents,
                       parent_student, leave_requests, attendance, fees, exams,
                       marks, timetable, workers, tokens>>

DeleteAnnouncement(announcement_id, current_user) ==
    \E r \in delete_announcement(announcements, teachers, announcement_id,
                                 current_user) :
        /\ announcements' = r.announcements
        /\ response' = [op |-> "delete_announcement", status |-> r.status]
        /\ UNCHANGED <<users, students, classes, subjects, teachers, parents,
                       parent_student, leave_requests, attendance, fees, exams,
                       marks, timetable, workers, tokens>>

NextAnnouncements ==
    \/ \E announcement_data \in AnnouncementCreate, current_user \in AnnouncementCallers :
           CreateAnnouncement(announcement_data, current_user)
    \/ \E announcement_id \in AnnouncementIdsOfRequests,
          announcement_data \in AnnouncementUpdate,
          current_user \in AnnouncementCallers :
           UpdateAnnouncement(announcement_id, announcement_data, current_user)
    \/ \E announcement_id \in AnnouncementIdsOfRequests,
          current_user \in AnnouncementCallers :
           DeleteAnnouncement(announcement_id, current_user)

SpecAnnouncements == Init /\ [][NextAnnouncements]_vars

\* the teacher profiles of a user
TeacherProfiles(tchs, sub) == {t.teacher_id : t \in rows_where(tchs, "user_id", sub)}

\* C13: update_announcement by a teacher-role caller who is not the
\* announcement's author (or has no teacher profile) is answered 403 and
\* leaves the announcements as they were.
C13_OtherTeacherRejected ==
    [][ (/\ response'.op = "update_announcement"
         /\ response'.current_user.role = "teacher"
         /\ \E a \in announcements :
                /\ a.announcement_id = response'.announcement_id
                /\ a.teacher_id \notin TeacherProfiles(teachers,
                                                       response'.current_user.sub))
        => (response'.status = 403 /\ announcements' = announcements) ]_vars

C13_Witness ==
    /\ response.op = "update_announcement"
    /\ response.current_user = [sub |-> "u_t2", role |-> "teacher"]
    /\ response.announcement_data.title # <<>>
    /\ response.status = 403
    /\ \E a \in announcements : /\ a.announcement_id = response.announcement_id
                                /\ a.teacher_id = "t1"

\* C14: update_announcement by a teacher-role caller on their own
\* announcement, with at least one field supplied, is answered with a
\* success response.
C14_AuthorUpdateSucceeds ==
    [][ (/\ response'.op = "update_announcement"
         /\ response'.current_user.role = "teacher"
         /\ \E k \in DOMAIN response'.announcement_data :
                response'.announcement_data[k] # <<>>
         /\ \E a \in announcements :
                /\ a.announcement_id = response'.announcement_id
                /\ a.teacher_id \in TeacherProfiles(teachers,
                                                    response'.current_user.sub))
        => response'.status = 200 ]_vars

-----------------------------------------------------------------------------
(* leave_requests.py: POST /leave-requests/, PUT /leave-requests/{id}.  A   *)
(* leave request row keeps request_id, student_id and status.              *)

LeaveStatus == {"pending", "approved", "rejected"}

\* the students leave requests name
LeaveStudents == {"s1", "s2", NoStudent}

LeaveRequestCreate == [student_id : LeaveStudents, status : LeaveStatus]

LeaveRequestUpdate == [status : LeaveStatus]

LeaveRequestIdsOfRequests == 1..(MaxLeaveRequests + 1)

\* the callers of the leave request endpoints
LeaveCallers ==
    {c \in Callers : c.sub \in {"u_admin", "u_master", "u_t1", "u_s1", "u_s0",
                                "u_p1", "u_p0"}}

LeaveRequestIds(tbl) == Col(tbl, "request_id")

insert_leave_request(tbl, student_id_to_use, request_data) ==
    tbl \cup {[request_id |-> FreshId(LeaveRequestIds(tbl)),
               student_id |-> student_id_to_use,
               status     |-> request_data.status]}

\* create_leave_request with the check of the student branch and the check
\* of the parent branch left out
create_leave_request_unchecked(tbl, studs, prnts, links, request_data, current_user) ==
    IF current_user.role \in {"student", "parent"}
    THEN {[status |-> 201,
           leave_requests |-> insert_leave_request(tbl, request_data.student_id,
                                                   request_data)]}
    ELSE {[status |-> 403, leave_requests |-> tbl]}

\* the answers create_leave_request may give
create_leave_request(tbl, studs, prnts, links, request_data, current_user) ==
    IF current_user.role = "student"
    THEN {IF student = {} THEN [status |-> 404, leave_requests |-> tbl]
          ELSE LET own == CHOOSE r \in student : TRUE
               IN  IF request_data.student_id # own.student_id
                   THEN [status |-> 403, leave_requests |-> tbl]
                   ELSE [status |-> 201,
                         leave_requests |->
                             insert_leave_request(tbl, own.student_id, request_data)] :
            student \in select_one(rows_where(studs, "user_id", current_user.sub))}
    ELSE IF current_user.role = "parent"
    THEN {IF parent = {} THEN [status |-> 404, leave_requests |-> tbl]
          ELSE LET child_ids ==
                       Col(rows_where(links, "parent_id",
                                      (CHOOSE r \in parent : TRUE).parent_id),
                           "student_id")
               IN  IF request_data.student_id \notin child_ids
                   THEN [status |-> 403, leave_requests |-> tbl]
                   ELSE [status |-> 201,
                         leave_requests |->
                             insert_leave_request(tbl, request_data.student_id,
                                                  request_data)] :
            parent \in select_one(rows_where(prnts, "user_id", current_user.sub))}
    ELSE IF current_user.role = "admin"
    THEN {IF request_data.student_id \notin Col(studs, "student_id")
          THEN [status |-> 404, leave_requests |-> tbl]
          ELSE [status |-> 201,
                leave_requests |->
                    insert_leave_request(tbl, request_data.student_id, request_data)]}
    ELSE {[status |-> 403, leave_requests |-> tbl]}

update_leave_request_status(tbl, request_id, update_data, current_user) ==
    IF ~require_teacher(current_user) THEN [status |-> 403, leave_requests |-> tbl]
    ELSE IF rows_where(tbl, "request_id", request_id) = {}
    THEN [status |-> 404, leave_requests |-> tbl]
    ELSE [status |-> 200,
          leave_requests |->
              {IF r.request_id = request_id
               THEN [r EXCEPT !.status = update_data.status] ELSE r : r \in tbl}]

CreateLeaveRequest(request_data, current_user) ==
    \E r \in create_leave_request(leave_requests, students, parents, parent_student,
                                  request_data, current_user) :
        /\ LeaveRequestIds(r.leave_requests) \subseteq 1..MaxLeaveRequests
        /\ leave_requests' = r.leave_requests
        /\ response' = [op |-> "create_leave_request", status |-> r.status,
                        current_user |-> current_user,
                        student_id |-> request_data.student_id]
        /\ UNCHANGED <<users, students, classes, subjects, teachers, parents,
                       parent_student, announcements, attendance, fees, exams,
                       marks, timetable, workers, tokens>>

UpdateLeaveRequestStatus(request_id, update_data, current_user) ==
    LET r == update_leave_request_status(leave_requests, request_id, update_data,
                                         current_user)
    IN  /\ leave_requests' = r.leave_requests
        /\ response' = [op |-> "update_leave_request_status", status |-> r.status]
        /\ UNCHANGED <<users, students, classes, subjects, teachers, parents,
                       parent_student, announcements, attendance, fees, exams,
                       marks, timetable, workers, tokens>>

\* the (parent_id, student_id) pairs linked while leave requests are made
LeaveLinkRequests == {<<"p1", "s1">>}

NextLeaveRequests ==
    \/ \E l \in LeaveLinkRequests : LinkStudentToParent(l[1], l[2])
    \/ \E l \in LeaveLinkRequests : UnlinkStudentFromParent(l[1], l[2])
    \/ \E request_data \in LeaveRequestCreate, current_user \in LeaveCallers :
           CreateLeaveRequest(request_data, current_user)
    \/ \E request_id \in LeaveRequestIdsOfRequests, update_data \in LeaveRequestUpdate,
          current_user \in LeaveCallers :
           UpdateLeaveRequestStatus(request_id, update_data, current_user)

SpecLeaveRequests == Init /\ [][NextLeaveRequests]_vars

\* C16: every leave request that create_leave_request stores has status
\* pending.
C16_CreatedPending ==
    [][ (response'.op = "create_leave_request" /\ response'.status = 201)
        => \A r \in leave_requests' \ leave_requests : r.status = "pending" ]_vars

\* C17: once a leave request's status is approved or rejected, no
\* update_leave_request_status call changes it; a status only moves from
\* pending to approved or to rejected.
C17_StatusTerminal ==
    [][ response'.op = "update_leave_request_status"
        => \A r \in leave_requests : \A q \in leave_requests' :
               (q.request_id = r.request_id /\ q.status # r.status)
               => (r.status = "pending" /\ q.status \in {"approved", "rejected"}) ]_vars

\* the student profiles of a user
StudentProfiles(studs, sub) == {r.student_id : r \in rows_where(studs, "user_id", sub)}

\* C18: create_leave_request by a student, parent or teacher caller inserts
\* a request for student S only when a student caller's own student id is S
\* or S is a child linked to a parent caller; otherwise the request is
\* rejected and nothing is inserted.
C18_OnlyEligibleCreate ==
    [][ (/\ response'.op = "create_leave_request"
         /\ response'.current_user.role \in {"student", "parent", "teacher"})
        => IF \/ /\ response'.current_user.role = "student"
                 /\ response'.student_id \in
                        StudentProfiles(students, response'.current_user.sub)
              \/ /\ response'.current_user.role = "parent"
                 /\ response'.student_id \in
                        LinkedChildren(parents, parent_student,
                                       response'.current_user.sub)
           THEN \A r \in leave_requests' \ leave_requests :
                    r.student_id = response'.student_id
           ELSE /\ response'.status \in {403, 404}
                /\ leave_requests' = leave_requests ]_vars

C18_Witness ==
    /\ response.op = "create_leave_request"
    /\ response.current_user = [sub |-> "u_p1", role |-> "parent"]
    /\ response.status = 403
    /\ response.student_id = "s2"
    /\ LinkedChildren(parents, parent_student, "u_p1") = {"s1"}
    /\ leave_requests # {}

-----------------------------------------------------------------------------
(* classes.py: POST /classes/, PUT /classes/{class_id}.  A class row keeps  *)
(* class_id, class_name, section, academic_year and teacher_id (<<>> when   *)
(* it has none).                                                           *)

ClassNames == {"Grade 1", "Grade 2"}

Sections == {"A", "B"}

AcademicYears == {"2025"}

ClassCreate ==
    [class_name : ClassNames, section : Sections, academic_year : AcademicYears,
     teacher_id : Optional({"t1", NoTeacher})]

\* the query parameters of update_class (<<>> for None)
ClassUpdate ==
    [class_name : Optional(ClassNames), section : Optional(Sections),
     academic_year : Optional(AcademicYears),
     teacher_id : Optional({"t1", NoTeacher})]

\* the ids the store gives to classes, in the order it gives them
ClassIdPool == <<"c1", "c2", "c3", "c4", "c5">>

\* the id of the next class row: the first of the pool that no row has
FreshClassId(tbl) ==
    ClassIdPool[CHOOSE i \in DOMAIN ClassIdPool :
                    /\ ClassIdPool[i] \notin Col(tbl, "class_id")
                    /\ \A j \in 1..(i - 1) : ClassIdPool[j] \in Col(tbl, "class_id")]

ClassIdsOfRequests == {"c1", "c2", "c3", NoClass}

\* the rows with the same class_name, section and academic_year
existing_class(tbl, class_name, section, academic_year) ==
    {c \in tbl : /\ c.class_name = class_name
                 /\ c.section = section
                 /\ c.academic_year = academic_year}

\* teacher.get("name") of the teacher a class row names: <<>> for None
teacher_name_of(tchs, teacher_id) ==
    IF teacher_id = <<>> \/ rows_where(tchs, "teacher_id", teacher_id[1]) = {}
    THEN <<>>
    ELSE <<(CHOOSE t \in tchs : t.teacher_id = teacher_id[1]).name>>

\* ClassResponse(**row, teacher_name=.., student_count=..)
ClassResponse(row, teacher_name, student_count) ==
    [class_id |-> row.class_id, class_name |-> row.class_name,
     section |-> row.section, academic_year |-> row.academic_year,
     teacher_id |-> row.teacher_id, teacher_name |-> teacher_name,
     student_count |-> student_count]

create_class(tbl, tchs, class_data, current_user) ==
    IF ~require_admin(current_user) THEN [status |-> 403, classes |-> tbl]
    ELSE IF existing_class(tbl, class_data.class_name, class_data.section,
                           class_data.academic_year) # {}
    THEN [status |-> 400, classes |-> tbl]
    ELSE IF /\ class_data.teacher_id # <<>>
            /\ class_data.teacher_id[1] \notin Col(tchs, "teacher_id")
    THEN [status |-> 404, classes |-> tbl]
    ELSE [status |-> 201,
          classes |-> tbl \cup {[class_id      |-> FreshClassId(tbl),
                                 class_name    |-> class_data.class_name,
                                 section       |-> class_data.section,
                                 academic_year |-> class_data.academic_year,
                                 teacher_id    |-> class_data.teacher_id]}]

update_class(tbl, tchs, class_id, update, current_user) ==
    IF ~require_admin(current_user) THEN [status |-> 403, classes |-> tbl]
    ELSE IF rows_where(tbl, "class_id", class_id) = {}
    THEN [status |-> 404, classes |-> tbl]
    ELSE IF /\ update.teacher_id # <<>>
            /\ update.teacher_id[1] \notin Col(tchs, "teacher_id")
    THEN [status |-> 404, classes |-> tbl]
    ELSE IF \A k \in DOMAIN update : update[k] = <<>>
    THEN [status |-> 400, classes |-> tbl]
    ELSE [status |-> 200,
          classes |->
              {IF c.class_id = class_id
               THEN [c EXCEPT
                       !.class_name    = IF update.class_name # <<>>
                                         THEN update.class_name[1] ELSE @,
                       !.section       = IF update.section # <<>>
                                         THEN update.section[1] ELSE @,
                       !.academic_year = IF update.academic_year # <<>>
                                         THEN update.academic_year[1] ELSE @,
                       !.teacher_id    = IF update.teacher_id # <<>>
                                         THEN update.teacher_id ELSE @]
               ELSE c : c \in tbl}]

\* the callers of the class endpoints
ClassCallers == {c \in Callers : c.sub \in {"u_admin", "u_master", "u_t1"}}

CreateClass(class_data, current_user) ==
    LET r == create_class(classes, teachers, class_data, current_user)
    IN  /\ Cardinality(r.classes) <= MaxClasses
        /\ classes' = r.classes
        /\ response' = [op |-> "create_class", status |-> r.status,
                        body |-> {ClassResponse(new_class,
                                                teacher_name_of(teachers,
                                                                new_class.teacher_id),
                                                0) :
                                    new_class \in r.classes \ classes}]
        /\ UNCHANGED <<users, students, subjects, teachers, parents, parent_student,
                       announcements, leave_requests, attendance, fees, exams,
                       marks, timetable, workers, tokens>>

UpdateClass(class_id, update, current_user) ==
    LET r == update_class(classes, teachers, class_id, update, current_user)
    IN  /\ classes' = r.classes
        /\ response' = [op |-> "update_class", status |-> r.status]
        /\ UNCHANGED <<users, students, subjects, teachers, parents, parent_student,
                       announcements, leave_requests, attendance, fees, exams,
                       marks, timetable, workers, tokens>>

NextClasses ==
    \/ \E class_data \in ClassCreate, current_user \in ClassCallers :
           CreateClass(class_data, current_user)
    \/ \E class_id \in ClassIdsOfRequests, update \in ClassUpdate,
          current_user \in ClassCallers :
           UpdateClass(class_id, update, current_user)

SpecClasses == Init /\ [][NextClasses]_vars

\* C20: no two classes share (class_name, section, academic_year).
C20_ClassTripleUnique ==
    \A a, b \in classes :
        (/\ a.class_name = b.class_name
         /\ a.section = b.section
         /\ a.academic_year = b.academic_year)
        => a = b

-----------------------------------------------------------------------------
(* classes.py: GET and DELETE /classes/{class_id}; exams.py: DELETE         *)
(* /exams/{exam_id}; fees.py: DELETE /fees/{fee_id}                         *)

\* get_class with the student count taken over every student
get_class_counts_all(tbl, tchs, studs, class_id, current_user) ==
    IF rows_where(tbl, "class_id", class_id) = {} THEN [status |-> 404, body |-> {}]
    ELSE LET cls == CHOOSE c \in tbl : c.class_id = class_id
         IN  [status |-> 200,
              body |-> {ClassResponse(cls, teacher_name_of(tchs, cls.teacher_id),
                                      Cardinality(studs))}]

\* the body is the set of the ClassResponse answered (none with an error)
get_class(tbl, tchs, studs, class_id, current_user) ==
    IF rows_where(tbl, "class_id", class_id) = {} THEN [status |-> 404, body |-> {}]
    ELSE LET cls == CHOOSE c \in tbl : c.class_id = class_id
         IN  [status |-> 200,
              body |-> {ClassResponse(cls, teacher_name_of(tchs, cls.teacher_id),
                                      Cardinality(rows_where(studs, "class_id",
                                                             class_id)))}]

\* delete_class with the check for enrolled students left out
delete_class_unchecked(tbl, studs, class_id, current_user) ==
    IF ~require_admin(current_user) THEN [status |-> 403, classes |-> tbl]
    ELSE IF rows_where(tbl, "class_id", class_id) = {}
    THEN [status |-> 404, classes |-> tbl]
    ELSE [status |-> 204, classes |-> tbl \ rows_where(tbl, "class_id", class_id)]

delete_class(tbl, studs, class_id, current_user) ==
    IF ~require_admin(current_user) THEN [status |-> 403, classes |-> tbl]
    ELSE IF rows_where(tbl, "class_id", class_id) = {}
    THEN [status |-> 404, classes |-> tbl]
    ELSE IF rows_where(studs, "class_id", class_id) # {}
    THEN [status |-> 400, classes |-> tbl]
    ELSE [status |-> 204, classes |-> tbl \ rows_where(tbl, "class_id", class_id)]

delete_exam(tbl, mrks, exam_id) ==
    IF select_exam(tbl, exam_id) = {} THEN [status |-> 404, exams |-> tbl]
    ELSE IF rows_where(mrks, "exam_id", exam_id) # {}
    THEN [status |-> 400, exams |-> tbl]
    ELSE [status |-> 204, exams |-> tbl \ select_exam(tbl, exam_id)]

delete_fee(tbl, fee_id) ==
    IF select_fee(tbl, fee_id) = {} THEN [status |-> 404, fees |-> tbl]
    ELSE IF \E existing_fee \in select_fee(tbl, fee_id) : existing_fee.amount_paid > 0
    THEN [status |-> 400, fees |-> tbl]
    ELSE [status |-> 204, fees |-> tbl \ select_fee(tbl, fee_id)]

GetClass(class_id, current_user) ==
    LET r == get_class(classes, teachers, students, class_id, current_user)
    IN  /\ response' = [op |-> "get_class", status |-> r.status,
                        class_id |-> class_id, body |-> r.body]
        /\ UNCHANGED <<users, refTables, attendance, fees, exams, marks, timetable,
                       workers>>

DeleteClass(class_id, current_user) ==
    LET r == delete_class(classes, students, class_id, current_user)
    IN  /\ classes' = r.classes
        /\ response' = [op |-> "delete_class", status |-> r.status, id |-> class_id]
        /\ UNCHANGED <<users, students, subjects, teachers, parents, parent_student,
                       announcements, leave_requests, attendance, fees, exams,
                       marks, timetable, workers, tokens>>

DeleteExam(exam_id) ==
    LET r == delete_exam(exams, marks, exam_id)
    IN  /\ exams' = r.exams
        /\ response' = [op |-> "delete_exam", status |-> r.status, id |-> exam_id]
        /\ UNCHANGED <<users, refTables, attendance, fees, marks, timetable, workers>>

DeleteFee(fee_id) ==
    LET r == delete_fee(fees, fee_id)
    IN  /\ fees' = r.fees
        /\ response' = [op |-> "delete_fee", status |-> r.status, id |-> fee_id]
        /\ UNCHANGED <<users, refTables, attendance, exams, marks, timetable, workers>>

\* the requests that build the rows and the dependents the deletions meet
LifecycleClasses ==
    {[class_name |-> "Grade 2", section |-> "A", academic_year |-> "2025",
      teacher_id |-> <<>>],
     [class_name |-> "Grade 2", section |-> "B", academic_year |-> "2025",
      teacher_id |-> <<"t1">>]}

LifecycleCallers == {c \in Callers : c.sub \in {"u_admin", "u_t1"}}

LifecycleExam == [class_id |-> "c1", subject_id |-> "sub1", max_marks |-> 1]

LifecycleMark == [exam_id |-> 1, student_id |-> "s1", marks_scored |-> 0]

LifecycleFee == [student_id |-> "s1", amount |-> 1, status |-> "pending"]

LifecyclePayment == [fee_id |-> 1, amount_paid |-> 1]

NextLifecycle ==
    \/ \E class_data \in LifecycleClasses, current_user \in LifecycleCallers :
           CreateClass(class_data, current_user)
    \/ \E class_id \in ClassIdsOfRequests, current_user \in LifecycleCallers :
           GetClass(class_id, current_user)
    \/ \E class_id \in ClassIdsOfRequests, current_user \in LifecycleCallers :
           DeleteClass(class_id, current_user)
    \/ CreateExam(LifecycleExam)
    \/ CreateMark(LifecycleMark)
    \/ \E exam_id \in ExamIdSpace : DeleteExam(exam_id)
    \/ CreateFee(LifecycleFee)
    \/ RecordPayment(LifecyclePayment)
    \/ \E fee_id \in FeeIdsOfRequests : DeleteFee(fee_id)

SpecLifecycle == Init /\ [][NextLifecycle]_vars

\* a 4xx status
ClientError == 400..499

\* C21: delete_class on a class with an enrolled student, delete_exam on an
\* exam with a mark and delete_fee on a fee with amount_paid > 0 are answered
\* with a client error and leave the classes and students, the exams and
\* marks, and the fees as they were.
C21_DeletionBlocked ==
    [][ /\ (/\ response'.op = "delete_class"
            /\ rows_where(classes, "class_id", response'.id) # {}
            /\ rows_where(students, "class_id", response'.id) # {})
           => /\ response'.status \in ClientError
              /\ classes' = classes /\ students' = students
        /\ (/\ response'.op = "delete_exam"
            /\ rows_where(exams, "exam_id", response'.id) # {}
            /\ rows_where(marks, "exam_id", response'.id) # {})
           => /\ response'.status \in ClientError
              /\ exams' = exams /\ marks' = marks
        /\ (/\ response'.op = "delete_fee"
            /\ \E f \in fees : f.fee_id = response'.id /\ f.amount_paid > 0)
           => /\ response'.status \in ClientError
              /\ fees' = fees ]_vars

C21_Witness ==
    /\ response = [op |-> "delete_exam", status |-> 400, id |-> 1]
    /\ marks # {}
    /\ \E f \in fees : f.amount_paid > 0
    /\ Cardinality(classes) = 2

\* C22: get_class called right after a create_class that gave no
\* teacher_id, with the class_id create_class returned, answers the same
\* class_name, section and academic_year, student_count 0 and no
\* teacher_name.
C22_CreateThenGet ==
    [][ (/\ response.op = "create_class" /\ response.status = 201
         /\ response'.op = "get_class"
         /\ \E created \in response.body :
                created.teacher_id = <<>> /\ created.class_id = response'.class_id)
        => /\ response'.status = 200
           /\ \A created \in response.body : \A got \in response'.body :
                  /\ got.class_name = created.class_name
                  /\ got.section = created.section
                  /\ got.academic_year = created.academic_year
                  /\ got.student_count = 0
                  /\ got.teacher_name = <<>>
           /\ response'.body # {} ]_vars

C22_Witness ==
    /\ response.op = "get_class"
    /\ response.status = 200
    /\ \E got \in response.body :
           /\ got.class_id \notin Col(ClassRows, "class_id")
           /\ got.teacher_id = <<>>
           /\ got.student_count = 0

-----------------------------------------------------------------------------
(* admin.py: the master's endpoints over admin accounts; auth.py: POST      *)
(* /login and POST /refresh; security.py: the tokens                        *)

\* largest user_id the store hands out before the model stops inserting
MaxUserId == 2

\* a JWT is its claims: sub, role and type; time stands still, so every
\* token issued is within its lifetime
TokenTypes == {"access", "refresh"}

create_access_token(data) == [sub |-> data.sub, role |-> data.role, type |-> "access"]

create_refresh_token(data) == [sub |-> data.sub, role |-> data.role, type |-> "refresh"]

\* a string that jwt.decode does not accept (bad signature, expired)
InvalidToken == [sub |-> 0, role |-> "none", type |-> "invalid"]

\* the TokenPayload of a token, or nothing (401) when jwt.decode raises;
\* the claim "type" is not looked at
verify_token(token) ==
    IF token.type \in TokenTypes
    THEN {[sub |-> token.sub, role |-> token.role]} ELSE {}

require_master(current_user) == current_user.role = "master"

\* whether verify_password(credentials.password, user["password_hash"]) holds
\* is a fact of the request
UserLogin == [email : Emails, password_verified : BOOLEAN]

\* login with the is_active check left out
login_unchecked(tbl, credentials) ==
    IF rows_where(tbl, "email", credentials.email) = {}
    THEN {[status |-> 401, issued |-> {}]}
    ELSE {IF ~credentials.password_verified THEN [status |-> 401, issued |-> {}]
          ELSE LET token_data == [sub |-> user.user_id, role |-> user.role]
               IN  [status |-> 200,
                    issued |-> {create_access_token(token_data),
                                create_refresh_token(token_data)}] :
          user \in rows_where(tbl, "email", credentials.email)}

login(tbl, credentials) ==
    IF rows_where(tbl, "email", credentials.email) = {}
    THEN {[status |-> 401, issued |-> {}]}
    ELSE {IF ~user.is_active THEN [status |-> 403, issued |-> {}]
          ELSE IF ~credentials.password_verified THEN [status |-> 401, issued |-> {}]
          ELSE LET token_data == [sub |-> user.user_id, role |-> user.role]
               IN  [status |-> 200,
                    issued |-> {create_access_token(token_data),
                                create_refresh_token(token_data)}] :
          user \in rows_where(tbl, "email", credentials.email)}

refresh_token(token) ==
    IF verify_token(token) = {} THEN [status |-> 401, issued |-> {}]
    ELSE LET payload == CHOOSE pl \in verify_token(token) : TRUE
             token_data == [sub |-> payload.sub, role |-> payload.role]
         IN  [status |-> 200,
              issued |-> {create_access_token(token_data),
                          create_refresh_token(token_data)}]

\* a request to an endpoint behind Depends(require_admin): 200 stands for
\* the gate letting the request through to the handler
admin_gated_request(token) ==
    IF verify_token(token) = {} THEN 401
    ELSE IF \E pl \in verify_token(token) : require_admin(pl) THEN 200
    ELSE 403

\* GET /me
get_current_user_info(tbl, token) ==
    IF verify_token(token) = {} THEN 401
    ELSE IF \E pl \in verify_token(token) :
                rows_where(tbl, "user_id", pl.sub) = {} THEN 404
    ELSE 200

create_admin(tbl, user_data, current_user) ==
    IF ~require_master(current_user) THEN [status |-> 403, users |-> tbl]
    ELSE IF user_data.role # "admin" THEN [status |-> 400, users |-> tbl]
    ELSE IF rows_where(tbl, "email", user_data.email) # {}
    THEN [status |-> 400, users |-> tbl]
    ELSE [status |-> 201,
          users  |-> tbl \cup {[user_id   |-> FreshId(UserIds(tbl)),
                                email     |-> user_data.email,
                                role      |-> "admin",
                                is_active |-> FALSE]}]

\* select_by_id("users") finds an admin
admin_found(tbl, admin_user_id) ==
    \E admin \in rows_where(tbl, "user_id", admin_user_id) : admin.role = "admin"

\* the status left of an HTTPException raised inside a try whose only
\* handler is "except Exception", which answers 500
caught_by_except_exception(status_code) == 500

set_is_active(tbl, admin_user_id, value) ==
    {IF u.user_id = admin_user_id THEN [u EXCEPT !.is_active = value] ELSE u :
         u \in tbl}

approve_admin(tbl, admin_user_id, current_user) ==
    IF ~require_master(current_user) THEN [status |-> 403, users |-> tbl]
    ELSE IF ~admin_found(tbl, admin_user_id)
    THEN [status |-> caught_by_except_exception(404), users |-> tbl]
    ELSE [status |-> 200, users |-> set_is_active(tbl, admin_user_id, TRUE)]

deactivate_admin(tbl, admin_user_id, current_user) ==
    IF ~require_master(current_user) THEN [status |-> 403, users |-> tbl]
    ELSE IF ~admin_found(tbl, admin_user_id)
    THEN [status |-> caught_by_except_exception(404), users |-> tbl]
    ELSE [status |-> 200, users |-> set_is_active(tbl, admin_user_id, FALSE)]

delete_admin(tbl, admin_user_id, current_user) ==
    IF ~require_master(current_user) THEN [status |-> 403, users |-> tbl]
    ELSE IF ~admin_found(tbl, admin_user_id)
    THEN [status |-> caught_by_except_exception(404), users |-> tbl]
    ELSE [status |-> 204, users |-> tbl \ rows_where(tbl, "user_id", admin_user_id)]

AdminUnchanged ==
    UNCHANGED <<refTables, attendance, fees, exams, marks, timetable, workers>>

CreateAdmin(user_data, current_user) ==
    LET r == create_admin(users, user_data, current_user)
    IN  /\ FreshId(UserIds(users)) <= MaxUserId
        /\ users' = r.users
        /\ response' = [op |-> "create_admin", status |-> r.status,
                        email |-> user_data.email]
        /\ AdminUnchanged

ApproveAdmin(admin_user_id, current_user) ==
    LET r == approve_admin(users, admin_user_id, current_user)
    IN  /\ users' = r.users
        /\ response' = [op |-> "approve_admin", status |-> r.status,
                        id |-> admin_user_id, role |-> current_user.role]
        /\ AdminUnchanged

DeactivateAdmin(admin_user_id, current_user) ==
    LET r == deactivate_admin(users, admin_user_id, current_user)
    IN  /\ users' = r.users
        /\ response' = [op |-> "deactivate_admin", status |-> r.status,
                        id |-> admin_user_id, role |-> current_user.role]
        /\ AdminUnchanged

DeleteAdmin(admin_user_id, current_user) ==
    LET r == delete_admin(users, admin_user_id, current_user)
    IN  /\ users' = r.users
        /\ response' = [op |-> "delete_admin", status |-> r.status,
                        id |-> admin_user_id, role |-> current_user.role]
        /\ AdminUnchanged

TokenUnchanged ==
    UNCHANGED <<users, students, classes, subjects, teachers, parents, parent_student,
                announcements, leave_requests, attendance, fees, exams, marks,
                timetable, workers>>

Login(credentials) ==
    \E r \in login(users, credentials) :
        /\ tokens' = tokens \cup r.issued
        /\ response' = [op |-> "login", status |-> r.status,
                        email |-> credentials.email, issued |-> r.issued]
        /\ TokenUnchanged

RefreshToken(token) ==
    LET r == refresh_token(token)
    IN  /\ tokens' = tokens \cup r.issued
        /\ response' = [op |-> "refresh_token", status |-> r.status,
                        token |-> token, issued |-> r.issued]
        /\ TokenUnchanged

AdminGatedRequest(token) ==
    /\ response' = [op |-> "admin_gated_request",
                    status |-> admin_gated_request(token), token |-> token]
    /\ UNCHANGED tokens
    /\ TokenUnchanged

GetCurrentUserInfo(token) ==
    /\ response' = [op |-> "get_current_user_info",
                    status |-> get_current_user_info(users, token), token |-> token]
    /\ UNCHANGED tokens
    /\ TokenUnchanged

\* the accounts the master's requests are about
AdminCreate ==
    [email : Emails, role : {"admin", "teacher"}, is_active : {TRUE}]

\* the account that comes from POST /register
RegisteredTeacher == [email |-> "b@school.org", role |-> "teacher", is_active |-> TRUE]

AdminCallers == {c \in Callers : c.sub \in {"u_master", "u_admin"}}

NextAdmin ==
    \/ \E user_data \in AdminCreate, current_user \in AdminCallers :
           CreateAdmin(user_data, current_user)
    \/ /\ FreshId(UserIds(users)) <= MaxUserId
       /\ RegisterUserWith(RegisteredTeacher)
    \/ \E admin_user_id \in 1..MaxUserId, current_user \in AdminCallers :
           ApproveAdmin(admin_user_id, current_user)
    \/ \E admin_user_id \in 1..MaxUserId, current_user \in AdminCallers :
           DeactivateAdmin(admin_user_id, current_user)
    \/ \E admin_user_id \in 1..MaxUserId, current_user \in AdminCallers :
           DeleteAdmin(admin_user_id, current_user)
    \/ \E credentials \in UserLogin : Login(credentials)
    \/ \E token \in tokens \cup {InvalidToken} : RefreshToken(token)
    \/ \E token \in tokens \cup {InvalidToken} : AdminGatedRequest(token)
    \/ \E token \in tokens \cup {InvalidToken} : GetCurrentUserInfo(token)

SpecAdmin == Init /\ [][NextAdmin]_vars

\* C23: create_admin stores the account with is_active false; an inactive
\* admin account becomes active only in a step where a master's
\* approve_admin on it succeeds; a login for an inactive account is refused
\* and issues no token; after a deactivate_admin that succeeds the account
\* is inactive (so its login is refused again).
C23_InactiveUntilApproved ==
    [][ /\ (response'.op = "create_admin" /\ response'.status = 201)
           => /\ users' \ users # {}
              /\ \A u \in users' \ users :
                     u.role = "admin" /\ ~u.is_active /\ u.email = response'.email
        /\ \A u \in users :
               (/\ u.role = "admin" /\ ~u.is_active
                /\ \E v \in users' : v.user_id = u.user_id /\ v.is_active)
               => /\ response'.op = "approve_admin"
                  /\ response'.id = u.user_id
                  /\ response'.role = "master"
        /\ (/\ response'.op = "login"
            /\ \E u \in users : u.email = response'.email /\ ~u.is_active)
           => /\ response'.status \in 400..499
              /\ response'.issued = {}
              /\ tokens' = tokens
        /\ (response'.op = "deactivate_admin" /\ response'.status = 200)
           => \A u \in users' : u.user_id = response'.id => ~u.is_active ]_vars

\* a login refused for an admin account that holds tokens: it was created,
\* approved, logged in and then deactivated
C23_Witness ==
    /\ response.op = "login"
    /\ response.status = 403
    /\ \E u \in users :
           /\ u.email = response.email /\ u.role = "admin" /\ ~u.is_active
           /\ \E t \in tokens : t.sub = u.user_id /\ t.role = "admin"

\* C25: approve_admin, deactivate_admin and delete_admin by a master, with a
\* user id that no user has or that a user who is not an admin has, are
\* answered 404 and leave the users table unchanged.
C25_NotAnAdminAnswered404 ==
    [][ (/\ response'.op \in {"approve_admin", "deactivate_admin", "delete_admin"}
         /\ response'.role = "master"
         /\ ~admin_found(users, response'.id))
        => /\ response'.status = 404
           /\ users' = users ]_vars

\* C27: POST /refresh refuses a token of type access with 401 and issues
\* nothing; the endpoints behind get_current_user refuse a token of type
\* refresh with 401.
C27_TokenTypeEnforced ==
    [][ /\ (response'.op = "refresh_token" /\ response'.token.type = "access")
           => response'.status = 401 /\ response'.issued = {}
        /\ (/\ response'.op \in {"get_current_user_info", "admin_gated_request"}
            /\ response'.token.type = "refresh")
           => response'.status = 401 ]_vars

\* C29: once the user a token was issued to is no longer an active admin
\* (deactivate_admin or delete_admin has run), the token does not pass the
\* admin gate and POST /refresh issues nothing for it.
C29_RevokedAdminLockedOut ==
    [][ (/\ response'.op \in {"admin_gated_request", "refresh_token"}
         /\ response'.token.role = "admin"
         /\ ~\E u \in users : /\ u.user_id = response'.token.sub
                              /\ u.role = "admin" /\ u.is_active)
        => /\ response'.status # 200
           /\ tokens' = tokens ]_vars

-----------------------------------------------------------------------------
(* leave_requests.py: GET /leave-requests/ *)

\* db.select_all("leave_requests", filters)
select_all_leave_requests(tbl, student_id, status) ==
    {r \in tbl : /\ student_id = <<>> \/ r.student_id = student_id[1]
                 /\ status = <<>> \/ r.status = status[1]}

\* the answers get_leave_requests may give; the body is the set of the
\* requests listed.  The whole body of the handler is inside a try whose
\* only handler is "except Exception".
get_leave_requests(tbl, studs, prnts, links, status, student_id, current_user) ==
    IF current_user.role = "student"
    THEN {IF student = {} THEN [status |-> 200, body |-> {}]
          ELSE LET own == CHOOSE r \in student : TRUE
               IN  [status |-> 200,
                    body |-> select_all_leave_requests(tbl, <<own.student_id>>,
                                                       status)] :
            student \in select_one(rows_where(studs, "user_id", current_user.sub))}
    ELSE IF current_user.role = "parent"
    THEN {IF parent = {} THEN [status |-> 200, body |-> {}]
          ELSE LET student_ids_allowed ==
                       Col(rows_where(links, "parent_id",
                                      (CHOOSE r \in parent : TRUE).parent_id),
                           "student_id")
               IN  IF student_ids_allowed = {} THEN [status |-> 200, body |-> {}]
                   ELSE IF student_id # <<>> /\ student_id[1] \notin student_ids_allowed
                   THEN [status |-> caught_by_except_exception(403), body |-> {}]
                   ELSE [status |-> 200,
                         body |-> {r \in select_all_leave_requests(tbl, student_id,
                                                                   status) :
                                     r.student_id \in student_ids_allowed}] :
            parent \in select_one(rows_where(prnts, "user_id", current_user.sub))}
    ELSE {[status |-> 200, body |-> select_all_leave_requests(tbl, student_id, status)]}

GetLeaveRequests(status, student_id, current_user) ==
    \E r \in get_leave_requests(leave_requests, students, parents, parent_student,
                                status, student_id, current_user) :
        /\ response' = [op |-> "get_leave_requests", status |-> r.status,
                        current_user |-> current_user, student_id |-> student_id,
                        body |-> r.body]
        /\ UNCHANGED <<users, refTables, attendance, fees, exams, marks, timetable,
                       workers>>

\* the requests of the listing scenario
ListedLeaveRequests == [student_id : {"s1", "s2"}, status : {"pending"}]

LeaveCreators == {c \in Callers : c.sub \in {"u_s1", "u_s2"}}

LeaveListers == {c \in Callers : c.sub \in {"u_admin", "u_s1", "u_p1", "u_p2", "u_p0"}}

NextLeaveList ==
    \/ \E l \in LeaveLinkRequests : LinkStudentToParent(l[1], l[2])
    \/ \E l \in LeaveLinkRequests : UnlinkStudentFromParent(l[1], l[2])
    \/ \E request_data \in ListedLeaveRequests, current_user \in LeaveCreators :
           CreateLeaveRequest(request_data, current_user)
    \/ \E status \in Optional({"pending"}), student_id \in Optional({"s1", "s2"}),
          current_user \in LeaveListers :
           GetLeaveRequests(status, student_id, current_user)

SpecLeaveList == Init /\ [][NextLeaveList]_vars

\* C24: get_leave_requests by a parent, with a student_id filter that names
\* a student who is not a child of that parent, is answered 403.
C24_ParentFilterForbidden ==
    [][ (/\ response'.op = "get_leave_requests"
         /\ response'.current_user.role = "parent"
         /\ response'.student_id # <<>>
         /\ response'.student_id[1] \notin
                LinkedChildren(parents, parent_student, response'.current_user.sub))
        => response'.status = 403 ]_vars

-----------------------------------------------------------------------------
(* attendance.py: POST /attendance/bulk *)

\* the entries of attendance_records: dictionaries with student_id and status
BulkAttendanceRecords == [student_id : StudentIds, status : {"present"}]

AttendanceBulkCreate ==
    [class_id : {"c1"}, date : Dates,
     attendance_records :
         UNION {[1..n -> BulkAttendanceRecords] : n \in 1..MaxBulk}]

\* db.insert_many("attendance", records): one row per entry of the list
RECURSIVE insert_many_attendance(_, _)
insert_many_attendance(tbl, records) ==
    IF records = <<>> THEN tbl
    ELSE insert_many_attendance(insert_attendance(tbl, Head(records)), Tail(records))

\* the rows of the request's date that name a student of the list
existing_bulk(tbl, bulk_data) ==
    {a \in tbl : /\ a.date = bulk_data.date
                 /\ \E i \in DOMAIN bulk_data.attendance_records :
                        a.student_id = bulk_data.attendance_records[i].student_id}

mark_bulk_attendance(tbl, studs, bulk_data) ==
    LET student_ids == Col(rows_where(studs, "class_id", bulk_data.class_id),
                           "student_id")
    IN  IF \E i \in DOMAIN bulk_data.attendance_records :
               bulk_data.attendance_records[i].student_id \notin student_ids
        THEN [status |-> 400, attendance |-> tbl]
        ELSE IF existing_bulk(tbl, bulk_data) # {}
        THEN [status |-> 400, attendance |-> tbl]
        ELSE [status |-> 201,
              attendance |->
                  insert_many_attendance(tbl,
                      [i \in DOMAIN bulk_data.attendance_records |->
                           [student_id |-> bulk_data.attendance_records[i].student_id,
                            date       |-> bulk_data.date,
                            status     |-> bulk_data.attendance_records[i].status]])]

MarkBulkAttendance(bulk_data) ==
    LET r == mark_bulk_attendance(attendance, students, bulk_data)
    IN  /\ Cardinality(r.attendance) <= MaxAttendance
        /\ attendance' = r.attendance
        /\ response' = [op |-> "mark_bulk_attendance", status |-> r.status,
                        bulk_data |-> bulk_data]
        /\ UNCHANGED <<users, refTables, fees, exams, marks, timetable, workers>>

NextBulkAttendance ==
    \/ MarkAttendance
    \/ \E bulk_data \in AttendanceBulkCreate : MarkBulkAttendance(bulk_data)

SpecBulkAttendance == Init /\ [][NextBulkAttendance]_vars

\* C26: a mark_bulk_attendance request never leaves two attendance records
\* for one (student_id, date), and when a student of the list is outside
\* the class or already has a record for the date it inserts nothing.
C26_BulkKeepsPairsUnique ==
    [][ response'.op = "mark_bulk_attendance"
        => /\ \A a, b \in attendance' :
                  (a.student_id = b.student_id /\ a.date = b.date)
                      => a.attendance_id = b.attendance_id
           /\ (\E i \in DOMAIN response'.bulk_data.attendance_records :
                   LET rec == response'.bulk_data.attendance_records[i]
                   IN  \/ rec.student_id \notin
                              Col(rows_where(students, "class_id",
                                             response'.bulk_data.class_id),
                                  "student_id")
                       \/ RecordsFor(attendance, rec.student_id,
                                     response'.bulk_data.date) # {})
              => attendance' = attendance ]_vars

-----------------------------------------------------------------------------
(* attendance.py: GET /attendance/ and GET /attendance/statistics;          *)
(* students.py: GET /students/{student_id}/attendance                       *)

\* the dates in the order of their ISO strings
DateOrder == <<"2025-01-06", "2025-01-07">>

DateIndex(d) == CHOOSE i \in DOMAIN DateOrder : DateOrder[i] = d

\* the filters both listings share: student_id, class_id (through the
\* students of the class, and only when the class has students), start_date
\* and end_date
filter_attendance(tbl, studs, class_id, student_id, start_date, end_date) ==
    LET student_ids == IF class_id = <<>> THEN {}
                       ELSE Col(rows_where(studs, "class_id", class_id[1]),
                                "student_id")
    IN  {a \in tbl :
            /\ student_id = <<>> \/ a.student_id = student_id[1]
            /\ student_ids = {} \/ a.student_id \in student_ids
            /\ start_date = <<>> \/ DateIndex(a.date) >= DateIndex(start_date[1])
            /\ end_date = <<>> \/ DateIndex(a.date) <= DateIndex(end_date[1])}

\* the first n of `rows` in some order of date descending: the sets the store
\* may put first (rows of one date come in any order)
latest(rows, n) ==
    {S \in SUBSET rows :
        /\ Cardinality(S) = IF n < Cardinality(rows) THEN n ELSE Cardinality(rows)
        /\ \A r \in S, q \in rows \ S : DateIndex(r.date) >= DateIndex(q.date)}

\* query.order("date", desc=True).range(start, end): the pages the store may
\* answer
range_by_date(rows, start, end) ==
    UNION {latest(rows \ before, end - start + 1) : before \in latest(rows, start)}

\* the answers get_attendance may give; no step of the handler looks at
\* current_user
get_attendance(tbl, studs, class_id, student_id, start_date, end_date, status, page, page_size, current_user) ==
    LET hits == {a \in filter_attendance(tbl, studs, class_id, student_id,
                                         start_date, end_date) :
                     status = <<>> \/ a.status = status[1]}
        start == (page - 1) * page_size
        end == start + page_size - 1
    IN  {[status |-> 200, body |-> pg] : pg \in range_by_date(hits, start, end)}

\* the records are the rows the statistics are computed from
get_attendance_statistics(tbl, studs, class_id, student_id, start_date, end_date, current_user) ==
    LET records == filter_attendance(tbl, studs, class_id, student_id,
                                     start_date, end_date)
    IN  [status |-> 200, records |-> records,
         total_records |-> Cardinality(records),
         present |-> Cardinality(rows_where(records, "status", "present")),
         absent |-> Cardinality(rows_where(records, "status", "absent"))]

\* student.get on the None that select_by_id answers for an unknown student
\* raises AttributeError: 500
get_student_attendance(tbl, studs, student_id, start_date, end_date, current_user) ==
    LET records == filter_attendance(tbl, studs, <<>>, <<student_id>>,
                                     start_date, end_date)
    IN  IF current_user.role = "student"
           /\ rows_where(studs, "student_id", student_id) = {}
        THEN [status |-> 500, records |-> {}]
        ELSE IF /\ current_user.role = "student"
                /\ \E student \in rows_where(studs, "student_id", student_id) :
                       student.user_id # current_user.sub
        THEN [status |-> 403, records |-> {}]
        ELSE [status |-> 200, records |-> records]

AttendanceViewUnchanged ==
    UNCHANGED <<users, refTables, attendance, fees, exams, marks, timetable, workers>>

GetAttendance(class_id, student_id, start_date, end_date, status, page, page_size, current_user) ==
    \E r \in get_attendance(attendance, students, class_id, student_id, start_date,
                            end_date, status, page, page_size, current_user) :
        /\ response' = [op |-> "get_attendance", status |-> r.status,
                        current_user |-> current_user, records |-> r.body]
        /\ AttendanceViewUnchanged

GetAttendanceStatistics(class_id, student_id, start_date, end_date, current_user) ==
    LET r == get_attendance_statistics(attendance, students, class_id, student_id,
                                       start_date, end_date, current_user)
    IN  /\ response' = [op |-> "get_attendance_statistics", status |-> r.status,
                        current_user |-> current_user, records |-> r.records]
        /\ AttendanceViewUnchanged

GetStudentAttendance(student_id, start_date, end_date, current_user) ==
    LET r == get_student_attendance(attendance, students, student_id, start_date,
                                    end_date, current_user)
    IN  /\ response' = [op |-> "get_student_attendance", status |-> r.status,
                        current_user |-> current_user, records |-> r.records]
        /\ AttendanceViewUnchanged

\* the attendance the views are asked about, and who asks
ViewedAttendance ==
    [class_id : {"c1"}, date : Dates,
     attendance_records :
         UNION {[1..n -> [student_id : AttendanceStudents, status : {"present"}]] :
                    n \in 1..MaxBulk}]

AttendanceViewers == {c \in Callers : c.sub \in {"u_s1", "u_s0", "u_t1"}}

NextAttendanceViews ==
    \/ \E bulk_data \in ViewedAttendance : MarkBulkAttendance(bulk_data)
    \/ \E class_id \in Optional({"c1"}), student_id \in Optional(AttendanceStudents),
          start_date \in Optional({"2025-01-07"}), status \in Optional({"present"}),
          page_size \in {1, 20}, current_user \in AttendanceViewers :
           GetAttendance(class_id, student_id, start_date, <<>>, status, 1, page_size,
                         current_user)
    \/ \E class_id \in Optional({"c1"}), student_id \in Optional(AttendanceStudents),
          end_date \in Optional({"2025-01-06"}), current_user \in AttendanceViewers :
           GetAttendanceStatistics(class_id, student_id, <<>>, end_date, current_user)
    \/ \E student_id \in AttendanceStudents \cup {NoStudent},
          current_user \in AttendanceViewers :
           GetStudentAttendance(student_id, <<>>, <<>>, current_user)

SpecAttendanceViews == Init /\ [][NextAttendanceViews]_vars

\* C28: whatever a caller of role student is answered by get_attendance,
\* get_attendance_statistics or get_student_attendance holds, or is computed
\* from, attendance records of the caller's own student profile only.
C28_StudentSeesOwnAttendanceOnly ==
    [][ (/\ response'.op \in {"get_attendance", "get_attendance_statistics",
                              "get_student_attendance"}
         /\ response'.current_user.role = "student")
        => \A a \in response'.records :
               \E student \in students : /\ student.student_id = a.student_id
                                         /\ student.user_id = response'.current_user.sub
      ]_vars

-----------------------------------------------------------------------------
(* fees.py: POST /fees/payment, two requests at the same time               *)
(*                                                                          *)
(* Two worker processes serve record_payment; a step is one call to the     *)
(* store: select_by_id (step 1, with the checks and the arithmetic of       *)
(* steps 2 to 4 on what it read), then update_by_id (step 5; the reads of   *)
(* step 6 change nothing and are part of it).                               *)

ReceiveRecordPayment(w) ==
    /\ workers[w].pc = "idle"
    /\ \E payment_data \in FeePayment :
           workers' = [workers EXCEPT ![w] = [pc |-> "select_fee",
                                              data |-> payment_data]]
    /\ UNCHANGED <<users, refTables, attendance, fees, exams, marks, timetable,
                   response>>

PaymentResponse(status, payment_data) ==
    [op |-> "record_payment", status |-> status, fee_id |-> payment_data.fee_id,
     amount_paid |-> payment_data.amount_paid]

SelectFeeForPayment(w) ==
    /\ workers[w].pc = "select_fee"
    /\ LET data == workers[w].data
       IN  IF select_fee(fees, data.fee_id) = {}
           THEN /\ workers' = [workers EXCEPT ![w] = [pc |-> "idle"]]
                /\ response' = PaymentResponse(404, data)
           ELSE LET fee == CHOOSE f \in select_fee(fees, data.fee_id) : TRUE
                    new_paid_amount == fee.amount_paid + data.amount_paid
                    new_balance == fee.amount - new_paid_amount
                    new_status == IF new_balance = 0 THEN "paid" ELSE "partial"
                IN  IF new_paid_amount > fee.amount
                    THEN /\ workers' = [workers EXCEPT ![w] = [pc |-> "idle"]]
                         /\ response' = PaymentResponse(400, data)
                    ELSE /\ workers' =
                                [workers EXCEPT ![w] =
                                    [pc |-> "update_fee", data |-> data,
                                     update_data |-> [amount_paid |-> new_paid_amount,
                                                      status |-> new_status]]]
                         /\ UNCHANGED response
    /\ UNCHANGED <<users, refTables, attendance, fees, exams, marks, timetable>>

UpdateFeeForPayment(w) ==
    /\ workers[w].pc = "update_fee"
    /\ LET data == workers[w].data
           update_data == workers[w].update_data
       IN  /\ fees' = {IF f.fee_id = data.fee_id
                       THEN [f EXCEPT !.amount_paid = update_data.amount_paid,
                                      !.status = update_data.status]
                       ELSE f : f \in fees}
           /\ response' = PaymentResponse(200, data)
    /\ workers' = [workers EXCEPT ![w] = [pc |-> "idle"]]
    /\ UNCHANGED <<users, refTables, attendance, exams, marks, timetable>>

\* the fee the payments are made against
ConcurrentFee == [student_id |-> "s1", amount |-> MaxAmount, status |-> "pending"]

NextFeesConcurrent ==
    \/ CreateFee(ConcurrentFee)
    \/ \E w \in Workers : ReceiveRecordPayment(w)
    \/ \E w \in Workers : SelectFeeForPayment(w)
    \/ \E w \in Workers : UpdateFeeForPayment(w)

SpecFeesConcurrent == Init /\ [][NextFeesConcurrent]_vars

\* C30: with two record_payment requests on one fee interleaved store call
\* by store call, the step that answers a payment with 200 raises the stored
\* amount_paid by exactly the payment's amount (so two that succeed leave
\* the amount before plus their sum), and amount_paid never exceeds amount.
C30_NoLostPayment ==
    [][ (/\ \E w \in Workers : workers[w].pc = "update_fee" /\ workers'[w].pc = "idle"
         /\ response'.op = "record_payment" /\ response'.status = 200)
        => /\ \A f \in fees : f.fee_id = response'.fee_id =>
                  \E g \in fees' : /\ g.fee_id = f.fee_id
                                   /\ g.amount_paid = f.amount_paid + response'.amount_paid
           /\ \A g \in fees' : g.amount_paid <= g.amount ]_vars

-----------------------------------------------------------------------------
(* The role master against the role admin *)

\* TRUE when no answer of a handler is a 403
NotForbidden(answers) == \A r \in answers : r.status # 403

\* C15: in every state and for every request of the announcement and leave
\* request endpoints, and at every role gate, a request that is not
\* answered 403 when an admin makes it is not answered 403 when a master
\* makes it.
C15_MasterSupersetOfAdmin ==
    \A admin \in CallersOf({"admin"}), master \in CallersOf({"master"}) :
        /\ require_admin(admin) => require_admin(master)
        /\ require_teacher(admin) => require_teacher(master)
        /\ \A announcement_data \in AnnouncementCreate :
               NotForbidden({create_announcement(announcements, teachers, classes,
                                                 announcement_data, admin)})
               => NotForbidden({create_announcement(announcements, teachers, classes,
                                                    announcement_data, master)})
        /\ \A announcement_id \in AnnouncementIdsOfRequests :
               /\ \A announcement_data \in AnnouncementUpdate :
                      NotForbidden(update_announcement(
                          announcements, teachers, classes, announcement_id,
                          announcement_data, admin))
                      => NotForbidden(update_announcement(
                             announcements, teachers, classes, announcement_id,
                             announcement_data, master))
               /\ NotForbidden(delete_announcement(announcements, teachers,
                                                   announcement_id, admin))
                  => NotForbidden(delete_announcement(announcements, teachers,
                                                      announcement_id, master))
        /\ \A request_id \in LeaveRequestIdsOfRequests, update_data \in LeaveRequestUpdate :
               NotForbidden({update_leave_request_status(
                   leave_requests, request_id, update_data, admin)})
               => NotForbidden({update_leave_request_status(
                      leave_requests, request_id, update_data, master)})
        /\ \A request_data \in LeaveRequestCreate :
               NotForbidden(create_leave_request(
                   leave_requests, students, parents, parent_student,
                   request_data, admin))
               => NotForbidden(create_leave_request(
                      leave_requests, students, parents, parent_student,
                      request_data, master))

-----------------------------------------------------------------------------
(* The API as one process: every endpoint modelled, one request at a time.  *)

Next ==
    \/ NextAuth
    \/ NextAttendance
    \/ NextFees
    \/ NextMarks
    \/ NextTimetable
    \/ NextParentViews
    \/ NextAnnouncements
    \/ NextLeaveRequests
    \/ NextClasses
    \/ NextLifecycle
    \/ NextAdmin
    \/ NextLeaveList
    \/ NextBulkAttendance
    \/ NextAttendanceViews
    \/ NextFeesConcurrent

Spec == Init /\ [][Next]_vars

=============================================================================
